---- MODULE Spec2Model ----
(***************************************************************************)
(* A model of the question-answering pipeline of rag-tabular-qa:           *)
(*   - the SQL safety validator (app/rag/sql_safety.py), as operators on   *)
(*     SQL texts, checked under SafetySpec;                                *)
(*   - the intent router (app/rag/router.py) and the /chat orchestrator    *)
(*     (services/api/main.py), as a state machine, checked under Spec.     *)
(*                                                                         *)
(* A SQL text is a sequence of atoms.  An atom is a short string all of    *)
(* whose characters belong to one class: whitespace, the terminator ";",   *)
(* punctuation, or word characters [A-Za-z0-9_].  Adjacent word atoms form *)
(* one longer word ("drop" followed by "x" is the word "dropx"), so that   *)
(* the word-boundary behaviour of the regular expression and of the        *)
(* tokenizer is modelled and not assumed.                                  *)
(***************************************************************************)
EXTENDS Integers, Sequences, FiniteSets, TLC

VARIABLES
    spc,        \* SafetySpec: position ("call1", "call2", "end")
    sqlIn,      \* SafetySpec: the text given to enforce_sql_safety
    out1,       \* SafetySpec: outcome of enforce_sql_safety(sqlIn)
    out2,       \* SafetySpec: outcome of enforce_sql_safety(out1.sql)
    pc,         \* chat: position of the request handler
    llm_obj,    \* chat: the JSON object the model returned to the router
    route,      \* chat: the RouterResult, None before routing
    mode,       \* chat: "deterministic" or "freeform"
    sql_text,   \* chat: the SQL text to run
    params,     \* chat: its bound parameters
    answer,     \* chat: the draft answer inside synthesize
    run,        \* chat: the SQLRunResult, None before a run succeeded
    calls,      \* history: the calls the handler made, in order
    raised,     \* history: for each call, None or Some(the error it raised)
    executed,   \* history: the texts sent to the database, in order
    sql_source, \* history: where sql_text came from
    llm_calls,  \* history: the number of model calls made
    failure,    \* chat: None, or Some(the error the request failed with)
    resp,       \* chat: None, or Some(the ChatResponse returned)
    ff,         \* history: the FreeformSQL values generate and repair returned
    runs,       \* history: for each run_sql call, its arguments and outcome
    synth_calls,\* history: the model calls synthesize made, in order
    bplan0,     \* BuilderSpec: the plan as it was before the first call
    bplan,      \* BuilderSpec: the plan object given to build_sql
    builds,     \* BuilderSpec: what each build_sql call returned, in order
    plan_cache, \* session: st.session_state.plan_cache
    pending,    \* session: st.session_state.pending
    messages,   \* session: st.session_state.messages (role and mode)
    asks,       \* history: for each question asked, how it was routed
    epoch,      \* history: the number of times the chat was cleared
    qintent,    \* QuerySpec: the intent whose template is executed
    qdb,        \* QuerySpec: the rows of the three tables
    qout,       \* QuerySpec: the rows each execution returned, in order
    reqs,       \* ConcSpec: the requests in progress, each with its locals
    shared      \* ConcSpec: the objects create_app shares between requests

safetyVars == <<spc, sqlIn, out1, out2>>

chatVars ==
    <<pc, llm_obj, route, mode, sql_text, params, answer, run, calls, raised,
      executed, sql_source, llm_calls, failure, resp, ff, runs, synth_calls>>

builderVars == <<bplan0, bplan, builds>>

sessionVars == <<plan_cache, pending, messages, asks, epoch>>

queryVars == <<qintent, qdb, qout>>

concVars == <<reqs, shared>>

vars == <<safetyVars, chatVars, builderVars, sessionVars, queryVars, concVars>>

\* the request handler is not running
ChatOff ==
    /\ pc = "off" /\ llm_obj = <<>> /\ route = <<>> /\ mode = ""
    /\ sql_text = <<>> /\ params = <<>> /\ answer = <<>> /\ run = <<>>
    /\ calls = <<>> /\ raised = <<>> /\ executed = <<>> /\ sql_source = ""
    /\ llm_calls = 0
    /\ failure = <<>> /\ resp = <<>>
    /\ ff = <<>> /\ runs = <<>> /\ synth_calls = <<>>

\* build_sql is not under test
BuilderOff == bplan0 = <<>> /\ bplan = <<>> /\ builds = <<>>

\* no template is executed against the tables
QueryOff == qintent = "" /\ qdb = <<>> /\ qout = <<>>

\* no concurrent requests are in progress
ConcOff == reqs = <<>> /\ shared = <<>>

\* no browser session is open
SessionOff ==
    /\ plan_cache = <<>> /\ pending = <<>> /\ messages = <<>>
    /\ asks = <<>> /\ epoch = 0

-----------------------------------------------------------------------------
(* Characters and case *)

SpaceAtoms == {" ", "\n"}

PunctAtoms == {"*", "(", ")", ",", "=", "--", ".", ":", "'", "<", ">", "+"}

IsSpace(a) == a \in SpaceAtoms

IsWord(a) == a \notin SpaceAtoms /\ a \notin PunctAtoms /\ a # ";"

\* str.lower() on one atom; atoms not listed hold no upper-case letter
Lower(a) ==
    CASE a = "SELECT" -> "select" [] a = "FROM" -> "from"
      [] a = "JOIN" -> "join"     [] a = "ON" -> "on"
      [] a = "WHERE" -> "where"   [] a = "GROUP" -> "group"
      [] a = "ORDER" -> "order"   [] a = "BY" -> "by"
      [] a = "LIMIT" -> "limit"   [] a = "COUNT" -> "count"
      [] a = "Count" -> "count"   [] a = "SUM" -> "sum"
      [] a = "AVG" -> "avg"       [] a = "MIN" -> "min"
      [] a = "MAX" -> "max"       [] a = "SHOW" -> "show"
      [] a = "TABLES" -> "tables" [] a = "TABLE" -> "table"
      [] a = "Clients" -> "clients"
      [] a = "INSERT" -> "insert" [] a = "UPDATE" -> "update"
      [] a = "DELETE" -> "delete" [] a = "DROP" -> "drop"
      [] a = "Drop" -> "drop"     [] a = "ALTER" -> "alter"
      [] a = "TRUNCATE" -> "truncate" [] a = "CREATE" -> "create"
      [] a = "REPLACE" -> "replace"   [] a = "GRANT" -> "grant"
      [] a = "REVOKE" -> "revoke"
      [] a = "AND" -> "and"       [] a = "AS" -> "as"
      [] a = "DESC" -> "desc"     [] a = "IN" -> "in"
      [] a = "YEAR" -> "year"     [] a = "MONTH" -> "month"
      [] a = "Overdue" -> "overdue"
      [] a = "User" -> "user"
      [] OTHER -> a

Digit(d) ==
    CASE d = 0 -> "0" [] d = 1 -> "1" [] d = 2 -> "2" [] d = 3 -> "3"
      [] d = 4 -> "4" [] d = 5 -> "5" [] d = 6 -> "6" [] d = 7 -> "7"
      [] d = 8 -> "8" [] d = 9 -> "9"

\* str(n) of an f-string, n >= 0
RECURSIVE IntText(_)
IntText(n) == IF n < 10 THEN Digit(n) ELSE IntText(n \div 10) \o Digit(n % 10)

\* the words that are numbers
NumberTexts == {IntText(n) : n \in 0..200}

-----------------------------------------------------------------------------
(* String operations of enforce_sql_safety *)

RECURSIVE LStrip(_)
LStrip(s) == IF s # <<>> /\ IsSpace(Head(s)) THEN LStrip(Tail(s)) ELSE s

RECURSIVE RStrip(_)
RStrip(s) ==
    IF s # <<>> /\ IsSpace(s[Len(s)]) THEN RStrip(SubSeq(s, 1, Len(s) - 1)) ELSE s

\* str.strip()
Strip(s) == RStrip(LStrip(s))

\* a variant that removes one trailing ";" only
RStripOneSemi(s) ==
    IF s # <<>> /\ s[Len(s)] = ";" THEN SubSeq(s, 1, Len(s) - 1) ELSE s

\* str.rstrip(";"): every trailing ";" is removed
RECURSIVE RStripSemi(_)
RStripSemi(s) ==
    IF s # <<>> /\ s[Len(s)] = ";" THEN RStripSemi(SubSeq(s, 1, Len(s) - 1)) ELSE s

\* sql.strip().rstrip(";")
Trimmed(s) == RStripSemi(Strip(s))

WRITE_KEYWORDS ==
    {"INSERT", "UPDATE", "DELETE", "DROP", "ALTER", "TRUNCATE", "CREATE",
     "REPLACE", "GRANT", "REVOKE"}

\* position i of s holds a whole word: \b on both sides
WholeWordAt(s, i) ==
    /\ IsWord(s[i])
    /\ (i = 1 \/ ~IsWord(s[i - 1]))
    /\ (i = Len(s) \/ ~IsWord(s[i + 1]))

\* a variant that matches the keywords in upper case only
is_write_query_case_sensitive(s) ==
    \E i \in 1..Len(s) : WholeWordAt(s, i) /\ s[i] \in WRITE_KEYWORDS

\* WRITE_KEYWORDS.search(sql), re.IGNORECASE
is_write_query(s) ==
    \E i \in 1..Len(s) :
        WholeWordAt(s, i) /\ Lower(s[i]) \in {Lower(k) : k \in WRITE_KEYWORDS}

-----------------------------------------------------------------------------
(* sqlglot.parse_one(sql, read="mysql"): tokenizer *)

\* atom i lies in a line comment: a "--" before it on the same line
InComment(s, i) == \E j \in 1..i : s[j] = "--" /\ \A k \in j..i : s[k] # "\n"

\* index of the last atom of the word that starts at i
RECURSIVE WordEnd(_, _)
WordEnd(s, i) == IF i < Len(s) /\ IsWord(s[i + 1]) THEN WordEnd(s, i + 1) ELSE i

RECURSIVE Concat(_, _, _)
Concat(s, i, j) == IF i > j THEN "" ELSE s[i] \o Concat(s, i + 1, j)

RECURSIVE ConcatLow(_, _, _)
ConcatLow(s, i, j) == IF i > j THEN "" ELSE Lower(s[i]) \o ConcatLow(s, i + 1, j)

\* the k-th smallest element of a set of numbers
Nth(S, k) == CHOOSE p \in S : Cardinality({q \in S : q <= p}) = k

\* a token starts at atom i: whitespace and comments are dropped, a maximal
\* run of word atoms is one token
IsTokenStart(s, i) ==
    /\ ~IsSpace(s[i])
    /\ ~InComment(s, i)
    /\ IsWord(s[i]) => (i = 1 \/ ~IsWord(s[i - 1]))

TokenAt(s, i) ==
    IF s[i] = ";" THEN [cls |-> "semi", raw |-> ";", low |-> ";"]
    ELSE IF IsWord(s[i])
    THEN LET j == WordEnd(s, i)
         IN  [cls |-> "word", raw |-> Concat(s, i, j), low |-> ConcatLow(s, i, j)]
    ELSE [cls |-> "punct", raw |-> s[i], low |-> s[i]]

\* the tokens that start at the atoms lo..hi, in order
RECURSIVE TokRange(_, _, _)
TokRange(s, lo, hi) ==
    IF lo > hi THEN <<>>
    ELSE IF lo = hi
    THEN (IF IsTokenStart(s, lo) THEN <<TokenAt(s, lo)>> ELSE <<>>)
    ELSE LET mid == (lo + hi) \div 2
         IN  TokRange(s, lo, mid) \o TokRange(s, mid + 1, hi)

Tokens(s) == TokRange(s, 1, Len(s))

\* Parser._parse: the tokens are cut into statements at every ";", and a ";"
\* that is the last token opens no further statement
Chunks(toks) ==
    LET semis == {i \in 1..Len(toks) : toks[i].cls = "semi"}
        n == Cardinality(semis)
        bound(k) == IF k = 0 THEN 0
                    ELSE IF k = n + 1 THEN Len(toks) + 1
                    ELSE Nth(semis, k)
        count == IF n > 0 /\ toks[Len(toks)].cls = "semi" THEN n ELSE n + 1
    IN  [k \in 1..count |-> SubSeq(toks, bound(k - 1) + 1, bound(k) - 1)]

-----------------------------------------------------------------------------
(* sqlglot.parse_one(sql, read="mysql"): parser, for the SELECT grammar    *)
(*   select := SELECT exprs [FROM tref {(, | JOIN) tref [ON expr]}]        *)
(*             [WHERE expr] [GROUP BY exprs] [ORDER BY exprs] [LIMIT n]    *)
(*   tref   := name [alias] | ( select ) [alias]                           *)
(* An expression is a run of tokens with balanced parentheses; a           *)
(* parenthesis that opens with SELECT is a subquery.                       *)

ClauseWords ==
    {"select", "from", "where", "group", "order", "by", "limit", "join", "on"}

AggregateNames == {"SUM", "COUNT", "AVG", "MIN", "MAX"}

TokLow(toks, i) == IF i >= 1 /\ i <= Len(toks) THEN toks[i].low ELSE "<eof>"

IsIdent(toks, i) ==
    /\ i >= 1 /\ i <= Len(toks)
    /\ toks[i].cls = "word"
    /\ toks[i].low \notin ClauseWords

\* what the checks read of a parsed tree: the Table nodes, and whether it
\* holds a Group node, an aggregate function node, a Limit node
Fail ==
    [ok |-> FALSE, next |-> 0, tables |-> {}, group |-> FALSE,
     calls |-> FALSE, limit |-> FALSE]

Leaf(next) ==
    [ok |-> TRUE, next |-> next, tables |-> {}, group |-> FALSE,
     calls |-> FALSE, limit |-> FALSE]

With(a, b) ==
    IF ~a.ok \/ ~b.ok THEN Fail
    ELSE [ok |-> TRUE, next |-> b.next, tables |-> a.tables \cup b.tables,
          group |-> a.group \/ b.group, calls |-> a.calls \/ b.calls,
          limit |-> a.limit \/ b.limit]

RECURSIVE ParseSelect(_, _)
RECURSIVE ParseJoins(_, _)

\* the subquery sub, if the ")" that closes it follows
Closed(toks, sub) ==
    IF sub.ok /\ TokLow(toks, sub.next) = ")"
    THEN [sub EXCEPT !.next = sub.next + 1]
    ELSE Fail

\* a subquery whose "(" is at i
Subquery(toks, i) == Closed(toks, ParseSelect(toks, i + 1))

\* "(" minus ")" among the tokens a..b
Depth(toks, a, b) ==
    Cardinality({q \in a..b : toks[q].low = "("})
        - Cardinality({q \in a..b : toks[q].low = ")"})

\* the ")" that closes the "(" at p, 0 if there is none
MatchClose(toks, p) ==
    LET S == {q \in (p + 1)..Len(toks) :
                toks[q].low = ")" /\ Depth(toks, p, q) = 0}
    IN  IF S = {} THEN 0 ELSE Nth(S, 1)

\* the first token of lo..hi that ends an expression entered at depth d: a
\* clause word or a ")" outside every parenthesis; else the depth after hi
RECURSIVE FindEnd(_, _, _, _)
FindEnd(toks, lo, hi, d) ==
    IF lo > hi THEN [found |-> FALSE, at |-> 0, depth |-> d]
    ELSE IF lo = hi
    THEN LET t == toks[lo].low
         IN  IF d = 0 /\ t \in ClauseWords \cup {")"}
             THEN [found |-> TRUE, at |-> lo, depth |-> d]
             ELSE [found |-> FALSE, at |-> 0,
                   depth |-> IF t = "(" THEN d + 1
                             ELSE IF t = ")" THEN d - 1 ELSE d]
    ELSE LET mid == (lo + hi) \div 2
             l == FindEnd(toks, lo, mid, d)
         IN  IF l.found THEN l ELSE FindEnd(toks, mid + 1, hi, l.depth)

\* q lies inside the parentheses of one of the subqueries that open at S
Inside(toks, q, S) == \E o \in S : o < q /\ q < MatchClose(toks, o)

\* the outermost subqueries among the tokens i..j-1: where their "(" stand
Subqueries(toks, i, j) ==
    {q \in i..(j - 1) :
        /\ toks[q].low = "(" /\ TokLow(toks, q + 1) = "select"
        /\ ~\E o \in i..(q - 1) :
                /\ toks[o].low = "(" /\ TokLow(toks, o + 1) = "select"
                /\ q < MatchClose(toks, o)}

\* the facts of the expression i..j-1 whose subqueries are parsed
ExprFacts(toks, i, j, subs, parsed) ==
    IF \E q \in subs : ~parsed[q].ok \/ parsed[q].next # MatchClose(toks, q) + 1
    THEN Fail
    ELSE IF \E q \in i..(j - 1) :
                /\ toks[q].low \in ClauseWords
                /\ ~Inside(toks, q, subs)
    THEN Fail
    ELSE [ok |-> TRUE, next |-> j,
          tables |-> UNION {parsed[q].tables : q \in subs},
          group |-> \E q \in subs : parsed[q].group,
          calls |-> \/ \E q \in subs : parsed[q].calls
                    \/ \E q \in i..(j - 1) :
                        /\ toks[q].low \in {Lower(f) : f \in AggregateNames}
                        /\ TokLow(toks, q + 1) = "("
                        /\ ~Inside(toks, q, subs),
          limit |-> \E q \in subs : parsed[q].limit]

ExprUpTo(toks, i, j, subs) ==
    ExprFacts(toks, i, j, subs, [q \in subs |-> Subquery(toks, q)])

\* an expression from token i on, up to the next clause word or the ")" that
\* closes the enclosing subquery: parentheses balance, a parenthesis that
\* opens with SELECT holds a subquery, and no clause word stands elsewhere
ExprEnd(toks, i, end) ==
    IF ~end.found /\ end.depth # 0 THEN Fail
    ELSE IF end.found
    THEN ExprUpTo(toks, i, end.at, Subqueries(toks, i, end.at))
    ELSE ExprUpTo(toks, i, Len(toks) + 1, Subqueries(toks, i, Len(toks) + 1))

ScanExpr(toks, i) == ExprEnd(toks, i, FindEnd(toks, i, Len(toks), 0))

\* the expression e that starts at i, if it is not empty
NonEmpty(e, i) == IF e.ok /\ e.next > i THEN e ELSE Fail

Expr(toks, i) == NonEmpty(ScanExpr(toks, i), i)

Alias(toks, r) ==
    IF r.ok /\ IsIdent(toks, r.next) THEN [r EXCEPT !.next = r.next + 1] ELSE r

TableRef(toks, j) ==
    IF TokLow(toks, j) = "("
    THEN (IF TokLow(toks, j + 1) = "select" THEN Alias(toks, Subquery(toks, j))
          ELSE Fail)
    ELSE IF IsIdent(toks, j)
    THEN Alias(toks, [Leaf(j + 1) EXCEPT !.tables = {toks[j]}])
    ELSE Fail

\* [ON expr] after the joined table t
JoinOn(toks, t) ==
    IF t.ok /\ TokLow(toks, t.next) = "on"
    THEN With(t, Expr(toks, t.next + 1)) ELSE t

ParseJoins(toks, r) ==
    IF ~r.ok THEN Fail
    ELSE IF TokLow(toks, r.next) \in {",", "join"}
    THEN ParseJoins(toks, JoinOn(toks, With(r, TableRef(toks, r.next + 1))))
    ELSE r

\* [FROM tref {join}] after the select list a
FromClause(toks, a) ==
    IF a.ok /\ TokLow(toks, a.next) = "from"
    THEN With(a, ParseJoins(toks, TableRef(toks, a.next + 1))) ELSE a

\* [WHERE expr]
WhereClause(toks, b) ==
    IF b.ok /\ TokLow(toks, b.next) = "where"
    THEN With(b, Expr(toks, b.next + 1)) ELSE b

\* [GROUP BY exprs]
GroupClause(toks, c) ==
    IF c.ok /\ TokLow(toks, c.next) = "group" /\ TokLow(toks, c.next + 1) = "by"
    THEN With([c EXCEPT !.group = TRUE], Expr(toks, c.next + 2)) ELSE c

\* [ORDER BY exprs]
OrderClause(toks, d) ==
    IF d.ok /\ TokLow(toks, d.next) = "order" /\ TokLow(toks, d.next + 1) = "by"
    THEN With(d, Expr(toks, d.next + 2)) ELSE d

\* [LIMIT n]
LimitClause(toks, e) ==
    IF e.ok /\ TokLow(toks, e.next) = "limit"
    THEN (IF TokLow(toks, e.next + 1) \in NumberTexts
          THEN [e EXCEPT !.next = e.next + 2, !.limit = TRUE]
          ELSE Fail)
    ELSE e

ParseSelect(toks, i) ==
    IF TokLow(toks, i) = "select"
    THEN LimitClause(toks,
            OrderClause(toks,
                GroupClause(toks,
                    WhereClause(toks,
                        FromClause(toks, Expr(toks, i + 1))))))
    ELSE Fail

\* one statement: [ok, kind, tree]
ParseStatement(chunk) ==
    IF chunk = <<>> THEN [ok |-> TRUE, kind |-> "none", tree |-> Fail]
    ELSE IF TokLow(chunk, 1) = "select"
    THEN LET p == ParseSelect(chunk, 1)
         IN  IF p.ok /\ p.next = Len(chunk) + 1
             THEN [ok |-> TRUE, kind |-> "select", tree |-> p]
             ELSE [ok |-> FALSE, kind |-> "error", tree |-> Fail]
    ELSE IF Len(chunk) = 2 /\ TokLow(chunk, 1) = "show" /\ TokLow(chunk, 2) = "tables"
    THEN [ok |-> TRUE, kind |-> "show", tree |-> Leaf(3)]
    ELSE IF Len(chunk) = 3 /\ TokLow(chunk, 1) = "drop" /\ TokLow(chunk, 2) = "table"
            /\ IsIdent(chunk, 3)
    THEN [ok |-> TRUE, kind |-> "drop",
          tree |-> [Leaf(4) EXCEPT !.tables = {chunk[3]}]]
    ELSE [ok |-> FALSE, kind |-> "error", tree |-> Fail]

\* parse_one: every statement of the text is parsed, the first is returned
ParseOne(s) ==
    LET chunks == Chunks(Tokens(s))
        stmts == [k \in 1..Len(chunks) |-> ParseStatement(chunks[k])]
    IN  IF \E k \in 1..Len(chunks) : ~stmts[k].ok
        THEN [ok |-> FALSE, kind |-> "error", tree |-> Fail]
        ELSE IF stmts[1].kind = "none"
        THEN [ok |-> FALSE, kind |-> "error", tree |-> Fail]
        ELSE stmts[1]

-----------------------------------------------------------------------------
(* enforce_sql_safety *)

default_limit == 50

\* a configuration without the LIMIT rule
SQLSafetyConfigNoLimitRule ==
    [allowed_tables |-> {"clients", "invoices", "invoice_line_items"},
     require_limit_for_non_aggregate |-> FALSE,
     default_limit |-> default_limit]

\* SQLSafetyConfig(), the configuration of every call in the program
SQLSafetyConfig ==
    [allowed_tables |-> {"clients", "invoices", "invoice_line_items"},
     require_limit_for_non_aggregate |-> TRUE,
     default_limit |-> default_limit]

\* raise SQLSafetyError(msg); names: the tables the message lists
Raise(msg, names) ==
    [ok |-> FALSE, error |-> "SQLSafetyError", msg |-> msg, names |-> names,
     sql |-> <<>>]

Return(s) == [ok |-> TRUE, error |-> "", msg |-> "", names |-> {}, sql |-> s]

_extract_table_names(tree) == {t.low : t \in {u \in tree.tables : u.raw # ""}}

_is_aggregate_query(tree) == tree.group \/ tree.calls

_has_limit(tree) == tree.limit

\* the tables of the query that are outside cfg.allowed_tables
Disallowed(tables, cfg) ==
    {t \in tables : t \notin {Lower(a) : a \in cfg.allowed_tables}}

\* the parser's exception leaving the function as it was raised
ParseErrorPropagates ==
    [ok |-> FALSE, error |-> "ParseError", msg |-> "SQL parse error",
     names |-> {}, sql |-> <<>>]

\* except Exception as e: raise SQLSafetyError(f"SQL parse error: {e}") from e
ParseErrorWrapped == Raise("SQL parse error", {})

\* the checks on the parsed statement, and the LIMIT rule
EnforceParsed(sql, parsed, cfg) ==
    IF ~parsed.ok THEN ParseErrorWrapped
    ELSE IF parsed.kind # "select"
    THEN Raise("Only SELECT queries are allowed.", {})
    ELSE IF Disallowed(_extract_table_names(parsed.tree), cfg) # {}
    THEN Raise("Query references disallowed tables",
               Disallowed(_extract_table_names(parsed.tree), cfg))
    ELSE IF /\ cfg.require_limit_for_non_aggregate
            /\ ~_is_aggregate_query(parsed.tree)
            /\ ~_has_limit(parsed.tree)
    THEN Return(sql \o <<" ", "LIMIT", " ", IntText(cfg.default_limit)>> \o <<";">>)
    ELSE Return(sql \o <<";">>)

\* the checks on the text sql = sql.strip().rstrip(";")
EnforceTrimmed(sql, cfg) ==
    IF sql = <<>> THEN Raise("Empty SQL", {})
    ELSE IF is_write_query(sql)
    THEN Raise("Write operations are not allowed (read-only mode).", {})
    ELSE EnforceParsed(sql, ParseOne(sql), cfg)

enforce_sql_safety(sql0, cfg) == EnforceTrimmed(Trimmed(sql0), cfg)

-----------------------------------------------------------------------------
(* The SQL texts the validator is applied to *)

MaxTrail == 2

Items == {<<"*">>, <<"x">>, <<"COUNT", "(", "*", ")">>, <<"drop", "x">>}

SimpleSelect(item, table, tail) ==
    <<"SELECT", " ">> \o item \o <<" ", "FROM", " ", table>> \o tail

InnerSelects ==
    {SimpleSelect(<<"*">>, "clients", <<>>),
     SimpleSelect(<<"*">>, "secrets", <<>>),
     SimpleSelect(<<"COUNT", "(", "*", ")">>, "clients", <<>>),
     SimpleSelect(<<"x">>, "clients", <<" ", "LIMIT", " ", "5">>)}

TableRefs ==
    {<<"clients">>, <<"Clients">>, <<"secrets">>}
    \cup {<<"(">> \o q \o <<")", " ", "t">> : q \in InnerSelects}

JoinTails ==
    {<<>>, <<" ", "JOIN", " ", "invoices">>, <<" ", "JOIN", " ", "secrets">>}

GroupTails == {<<>>, <<" ", "GROUP", " ", "BY", " ", "x">>}

LimitTails == {<<>>, <<" ", "LIMIT", " ", "5">>}

CommentTails == {<<" ", "--", " ", "x">>, <<" ", "--", " ", "drop">>}

Statements ==
    {<<"SELECT", " ">> \o it \o <<" ", "FROM", " ">> \o tr \o j \o g \o l :
        it \in Items, tr \in TableRefs, j \in JoinTails, g \in GroupTails,
        l \in LimitTails}

\* texts outside the SELECT grammar, or with a write keyword as a whole word
OtherTexts ==
    {<<>>,
     <<"DROP", " ", "TABLE", " ", "clients">>,
     <<"Drop", " ", "TABLE", " ", "clients">>,
     <<"SHOW", " ", "TABLES">>,
     <<"DROP", " ", "TABLE", " ", "clients", " ", ")">>,
     <<"--", " ", "x">>,
     SimpleSelect(<<"DROP">>, "clients", <<>>),
     SimpleSelect(<<"REPLACE", "(", "x", ")">>, "clients", <<>>),
     <<"SELECT", " ", "*", " ", "FROM", " ", "(">> \o
         SimpleSelect(<<"*">>, "clients", <<>>),
     SimpleSelect(<<"*">>, "clients", <<" ", ")">>),
     SimpleSelect(<<"*">>, "clients", <<" ", "LIMIT", " ", "5", " ", "LIMIT", " ", "50">>)}

Bodies ==
    Statements
    \cup {s \o c : s \in Statements, c \in CommentTails}
    \cup {s \o <<";", " ">> \o q : s \in Statements, q \in InnerSelects}
    \cup OtherTexts

Leads == {<<>>, <<"\n", " ">>}

RECURSIVE Trails(_)
Trails(n) ==
    IF n = 0 THEN {<<>>}
    ELSE Trails(n - 1)
         \cup {Append(t, a) : t \in {u \in Trails(n - 1) : Len(u) = n - 1},
                              a \in {" ", ";"}}

Inputs == {ld \o b \o tr : ld \in Leads, b \in Bodies, tr \in Trails(MaxTrail)}

-----------------------------------------------------------------------------
(* SafetySpec: enforce_sql_safety applied to a text, then to its own output *)

NoOutcome == [ok |-> FALSE, error |-> "none", msg |-> "", names |-> {}, sql |-> <<>>]

SafetyInit ==
    /\ spc = "call1"
    /\ sqlIn \in Inputs
    /\ out1 = NoOutcome
    /\ out2 = NoOutcome
    /\ ChatOff /\ BuilderOff /\ SessionOff /\ QueryOff /\ ConcOff

\* out = enforce_sql_safety(sql)
Enforce ==
    /\ spc = "call1"
    /\ out1' = enforce_sql_safety(sqlIn, SQLSafetyConfig)
    /\ spc' = IF out1'.ok THEN "call2" ELSE "end"
    /\ UNCHANGED <<sqlIn, out2, chatVars, builderVars, sessionVars, queryVars, concVars>>

\* enforce_sql_safety(out): the validator applied to its own output
EnforceAgain ==
    /\ spc = "call2"
    /\ out2' = enforce_sql_safety(out1.sql, SQLSafetyConfig)
    /\ spc' = "end"
    /\ UNCHANGED <<sqlIn, out1, chatVars, builderVars, sessionVars, queryVars, concVars>>

SafetyNext == Enforce \/ EnforceAgain

SafetySpec == SafetyInit /\ [][SafetyNext]_vars

-----------------------------------------------------------------------------
(* What the claims say of a text, stated apart from the validator's code *)

\* the text between its leading whitespace and its trailing whitespace and
\* terminators: sql.strip() without the ";" that end it
FirstKept(s) ==
    CHOOSE i \in 1..(Len(s) + 1) :
        /\ \A j \in 1..(i - 1) : IsSpace(s[j])
        /\ i = Len(s) + 1 \/ ~IsSpace(s[i])

LastNonSpace(s) ==
    CHOOSE i \in 0..Len(s) :
        /\ \A j \in (i + 1)..Len(s) : IsSpace(s[j])
        /\ i = 0 \/ ~IsSpace(s[i])

LastKept(s) ==
    CHOOSE i \in 0..LastNonSpace(s) :
        /\ \A j \in (i + 1)..LastNonSpace(s) : s[j] = ";"
        /\ i = 0 \/ s[i] # ";"

TrimmedInput(s) == SubSeq(s, FirstKept(s), LastKept(s))

\* the statements of a text, each parsed on its own
StatementsOf(s) ==
    LET chunks == Chunks(Tokens(s))
    IN  {ParseStatement(chunks[k]) : k \in 1..Len(chunks)}

\* every table name the text references, in any statement, lower-cased
TextTables(s) == UNION {{t.low : t \in st.tree.tables} : st \in StatementsOf(s)}

\* some statement of the text has a GROUP BY or an aggregate call
TextIsAggregate(s) == \E st \in StatementsOf(s) : st.tree.group \/ st.tree.calls

\* some statement of the text has a LIMIT clause
TextHasLimit(s) == \E st \in StatementsOf(s) : st.tree.limit

\* a write keyword stands in the text as a whole word, in any letter case
HasWriteWord(s) ==
    \E i \in 1..Len(s) :
        /\ Lower(s[i]) \in {"insert", "update", "delete", "drop", "alter",
                            "truncate", "create", "replace", "grant", "revoke"}
        /\ (i = 1 \/ ~IsWord(s[i - 1]))
        /\ (i = Len(s) \/ ~IsWord(s[i + 1]))

EndsInOneSemi(t) ==
    /\ Len(t) >= 1
    /\ t[Len(t)] = ";"
    /\ (Len(t) = 1 \/ t[Len(t) - 1] # ";")

AllowList == {"clients", "invoices", "invoice_line_items"}

-----------------------------------------------------------------------------
(* Claims on enforce_sql_safety, checked under SafetySpec *)

\* C1: a text that holds one of the write/DDL keywords as a whole word, in
\* any letter case, makes enforce_sql_safety fail with SQLSafetyError and
\* return no SQL, whatever else the text holds and whether or not it parses.
C1_WriteKeywordRejected ==
    (spc # "call1" /\ HasWriteWord(sqlIn))
        => (~out1.ok /\ out1.error = "SQLSafetyError" /\ out1.sql = <<>>)

\* a lower-case keyword inside a comment of an otherwise valid SELECT
C1_Witness ==
    /\ spc = "end"
    /\ \E i \in 1..Len(sqlIn) : sqlIn[i] = "drop" /\ WholeWordAt(sqlIn, i)
    /\ ParseOne(Trimmed(sqlIn)).ok
    /\ out1.error = "SQLSafetyError"

\* C2: every table name referenced anywhere in a text that
\* enforce_sql_safety accepts (joins, subqueries, any statement of the text)
\* is in the allow-list; a text that references another table is rejected.
C2_AcceptedTablesAllowed ==
    (spc # "call1" /\ out1.ok) => TextTables(sqlIn) \subseteq AllowList

\* C3: an accepted text with no aggregate and no LIMIT clause comes back as
\* the trimmed input followed by " LIMIT 50" and ";", and every string that
\* enforce_sql_safety returns ends in exactly one ";".
C3_LimitAddedOneTerminator ==
    /\ (spc # "call1" /\ out1.ok /\ ~TextIsAggregate(sqlIn) /\ ~TextHasLimit(sqlIn))
        => out1.sql = TrimmedInput(sqlIn) \o <<" ", "LIMIT", " ", "50", ";">>
    /\ (spc # "call1" /\ out1.ok) => EndsInOneSemi(out1.sql)
    /\ (spc = "end" /\ out2.ok) => EndsInOneSemi(out2.sql)

\* an aggregate query that ends in two terminators is returned with one
C3_Witness ==
    /\ spc # "call1" /\ out1.ok
    /\ Len(sqlIn) >= 2 /\ sqlIn[Len(sqlIn)] = ";" /\ sqlIn[Len(sqlIn) - 1] = ";"
    /\ TextIsAggregate(sqlIn)
    /\ EndsInOneSemi(out1.sql)

\* a plain SELECT with trailing whitespace and terminator gets the LIMIT
C3_WitnessLimit ==
    /\ spc # "call1" /\ out1.ok
    /\ ~TextIsAggregate(sqlIn) /\ ~TextHasLimit(sqlIn)
    /\ Len(sqlIn) > Len(TrimmedInput(sqlIn)) + 1
    /\ out1.sql = TrimmedInput(sqlIn) \o <<" ", "LIMIT", " ", "50", ";">>

\* C4: an accepted text that is an aggregate query (GROUP BY, or a call to
\* SUM, COUNT, AVG, MIN or MAX) or that already has a LIMIT clause gets no
\* LIMIT added: the result is the trimmed input with one ";" appended.
C4_AggregateOrLimitedUntouched ==
    (spc # "call1" /\ out1.ok /\ (TextIsAggregate(sqlIn) \/ TextHasLimit(sqlIn)))
        => out1.sql = TrimmedInput(sqlIn) \o <<";">>

\* C5: enforce_sql_safety applied to its own output succeeds and returns
\* that output unchanged.
C5_Idempotent ==
    (spc = "end" /\ out1.ok) => (out2.ok /\ out2.sql = out1.sql)

-----------------------------------------------------------------------------
(* Optional values: None, or Some(x) *)

None == <<>>

Some(x) == <<x>>

-----------------------------------------------------------------------------
(* build_sql: one parameterized template per intent.  A run of blanks is   *)
(* the atom " ", a run of whitespace with a line break the atom "\n".      *)

Intent ==
    {"LIST_CLIENTS", "CLIENTS_BY_COUNTRY", "INVOICES_BY_MONTH",
     "INVOICES_BY_STATUS", "CLIENT_INVOICES", "INVOICES_BY_CLIENT_AND_MONTH",
     "OVERDUE_INVOICES_AS_OF_DATE", "INVOICE_LINE_ITEMS",
     "LINE_ITEM_COUNT_BY_SERVICE", "CLIENT_TOTAL_BILLED_BY_YEAR",
     "TOP_CLIENT_BY_YEAR", "TOP_SERVICES_BY_REVENUE", "REVENUE_BY_COUNTRY",
     "SERVICE_CLIENT_TOTALS", "TOP_SERVICES_EU_H2", "FREEFORM_SQL"}

Max(a, b) == IF a >= b THEN a ELSE b

Min(a, b) == IF a <= b THEN a ELSE b

\* _safe_limit(n, default, min_v, max_v), n an optional integer
\* stands for a limit value that int() raises for, such as "many"
NonNumeric == 1000000

\* try: v = int(n) / except Exception: return default
_safe_limit(n, default, min_v, max_v) ==
    IF n = None THEN default
    ELSE IF n[1] = NonNumeric THEN default
    ELSE Max(min_v, Min(max_v, n[1]))

sql_LIST_CLIENTS ==
    <<"\n", "SELECT", " ", "client_id", ",", " ", "client_name", ",", " ",
      "industry", ",", " ", "country", "\n", "FROM", " ", "clients", "\n",
      "ORDER", " ", "BY", " ", "client_name", "\n">>

sql_CLIENTS_BY_COUNTRY ==
    <<"\n", "SELECT", " ", "client_id", ",", " ", "client_name", ",", " ",
      "industry", ",", " ", "country", "\n", "FROM", " ", "clients", "\n",
      "WHERE", " ", "country", " ", "=", " ", ":", "country", "\n", "ORDER",
      " ", "BY", " ", "client_name", "\n">>

sql_INVOICES_BY_MONTH ==
    <<"\n", "SELECT", " ", "invoice_id", ",", " ", "client_id", ",", " ",
      "invoice_date", ",", " ", "due_date", ",", " ", "status", ",", " ",
      "currency", "\n", "FROM", " ", "invoices", "\n", "WHERE", " ", "YEAR",
      "(", "invoice_date", ")", "=", ":", "year", " ", "AND", " ", "MONTH",
      "(", "invoice_date", ")", "=", ":", "month", "\n", "ORDER", " ", "BY",
      " ", "invoice_date", ",", " ", "invoice_id", "\n">>

sql_INVOICES_BY_STATUS ==
    <<"\n", "SELECT", " ", "invoice_id", ",", " ", "client_id", ",", " ",
      "invoice_date", ",", " ", "due_date", ",", " ", "status", ",", " ",
      "currency", "\n", "FROM", " ", "invoices", "\n", "WHERE", " ",
      "status", " ", "=", " ", ":", "status", "\n", "ORDER", " ", "BY", " ",
      "due_date", ",", " ", "invoice_id", "\n">>

sql_CLIENT_INVOICES ==
    <<"\n", "SELECT", "\n", "i", ".", "invoice_id", ",", "\n", "i", ".",
      "invoice_date", ",", "\n", "i", ".", "due_date", ",", "\n", "i", ".",
      "status", ",", "\n", "i", ".", "currency", "\n", "FROM", " ",
      "invoices", " ", "i", "\n", "JOIN", " ", "clients", " ", "c", " ",
      "ON", " ", "c", ".", "client_id", " ", "=", " ", "i", ".", "client_id",
      "\n", "WHERE", " ", "c", ".", "client_name", " ", "=", " ", ":",
      "client_name", "\n", "ORDER", " ", "BY", " ", "i", ".", "invoice_date",
      ",", " ", "i", ".", "invoice_id", "\n">>

sql_INVOICES_BY_CLIENT_AND_MONTH ==
    <<"\n", "SELECT", "\n", "i", ".", "invoice_id", ",", "\n", "i", ".",
      "invoice_date", ",", "\n", "i", ".", "due_date", ",", "\n", "i", ".",
      "status", ",", "\n", "i", ".", "currency", "\n", "FROM", " ",
      "invoices", " ", "i", "\n", "JOIN", " ", "clients", " ", "c", " ",
      "ON", " ", "c", ".", "client_id", " ", "=", " ", "i", ".", "client_id",
      "\n", "WHERE", " ", "c", ".", "client_name", " ", "=", " ", ":",
      "client_name", "\n", "AND", " ", "YEAR", "(", "i", ".", "invoice_date",
      ")", " ", "=", " ", ":", "year", "\n", "AND", " ", "MONTH", "(", "i",
      ".", "invoice_date", ")", " ", "=", " ", ":", "month", "\n", "ORDER",
      " ", "BY", " ", "i", ".", "invoice_date", ",", " ", "i", ".",
      "invoice_id", "\n">>

sql_OVERDUE_INVOICES_AS_OF_DATE ==
    <<"\n", "SELECT", "\n", "i", ".", "invoice_id", ",", "\n", "c", ".",
      "client_name", ",", "\n", "i", ".", "invoice_date", ",", "\n", "i",
      ".", "due_date", ",", "\n", "i", ".", "status", ",", "\n", "i", ".",
      "currency", "\n", "FROM", " ", "invoices", " ", "i", "\n", "JOIN", " ",
      "clients", " ", "c", " ", "ON", " ", "c", ".", "client_id", " ", "=",
      " ", "i", ".", "client_id", "\n", "WHERE", " ", "i", ".", "status",
      " ", "=", " ", "'", "Overdue", "'", "\n", "AND", " ", "i", ".",
      "due_date", " ", "<", " ", ":", "as_of_date", "\n", "ORDER", " ", "BY",
      " ", "i", ".", "due_date", ",", " ", "i", ".", "invoice_id", "\n">>

sql_INVOICE_LINE_ITEMS ==
    <<"\n", "SELECT", "\n", "line_id", ",", "\n", "invoice_id", ",", "\n",
      "service_name", ",", "\n", "quantity", ",", "\n", "unit_price", ",",
      "\n", "tax_rate", ",", "\n", "(", "quantity", " ", "*", " ",
      "unit_price", ")", " ", "*", " ", "(", "1", " ", "+", " ", "tax_rate",
      ")", " ", "AS", " ", "line_total_including_tax", "\n", "FROM", " ",
      "invoice_line_items", "\n", "WHERE", " ", "invoice_id", " ", "=", " ",
      ":", "invoice_id", "\n", "ORDER", " ", "BY", " ", "line_id", "\n">>

sql_LINE_ITEM_COUNT_BY_SERVICE ==
    <<"\n", "SELECT", "\n", "service_name", ",", "\n", "COUNT", "(", "*",
      ")", " ", "AS", " ", "line_item_count", "\n", "FROM", " ",
      "invoice_line_items", "\n", "GROUP", " ", "BY", " ", "service_name",
      "\n", "ORDER", " ", "BY", " ", "line_item_count", " ", "DESC", ",",
      " ", "service_name", "\n">>

sql_CLIENT_TOTAL_BILLED_BY_YEAR ==
    <<"\n", "SELECT", "\n", "c", ".", "client_id", ",", "\n", "c", ".",
      "client_name", ",", "\n", "SUM", "(", "(", "li", ".", "quantity", " ",
      "*", " ", "li", ".", "unit_price", ")", " ", "*", " ", "(", "1", " ",
      "+", " ", "li", ".", "tax_rate", ")", ")", " ", "AS", " ",
      "total_billed_including_tax", "\n", "FROM", " ", "clients", " ", "c",
      "\n", "JOIN", " ", "invoices", " ", "i", " ", "ON", " ", "i", ".",
      "client_id", " ", "=", " ", "c", ".", "client_id", "\n", "JOIN", " ",
      "invoice_line_items", " ", "li", " ", "ON", " ", "li", ".",
      "invoice_id", " ", "=", " ", "i", ".", "invoice_id", "\n", "WHERE",
      " ", "YEAR", "(", "i", ".", "invoice_date", ")", " ", "=", " ", ":",
      "year", "\n", "GROUP", " ", "BY", " ", "c", ".", "client_id", ",", " ",
      "c", ".", "client_name", "\n", "ORDER", " ", "BY", " ",
      "total_billed_including_tax", " ", "DESC", ",", " ", "c", ".",
      "client_name", "\n">>

sql_TOP_CLIENT_BY_YEAR ==
    <<"\n", "SELECT", "\n", "c", ".", "client_id", ",", "\n", "c", ".",
      "client_name", ",", "\n", "SUM", "(", "(", "li", ".", "quantity", " ",
      "*", " ", "li", ".", "unit_price", ")", " ", "*", " ", "(", "1", " ",
      "+", " ", "li", ".", "tax_rate", ")", ")", " ", "AS", " ",
      "total_billed_including_tax", "\n", "FROM", " ", "clients", " ", "c",
      "\n", "JOIN", " ", "invoices", " ", "i", " ", "ON", " ", "i", ".",
      "client_id", " ", "=", " ", "c", ".", "client_id", "\n", "JOIN", " ",
      "invoice_line_items", " ", "li", " ", "ON", " ", "li", ".",
      "invoice_id", " ", "=", " ", "i", ".", "invoice_id", "\n", "WHERE",
      " ", "YEAR", "(", "i", ".", "invoice_date", ")", " ", "=", " ", ":",
      "year", "\n", "GROUP", " ", "BY", " ", "c", ".", "client_id", ",", " ",
      "c", ".", "client_name", "\n", "ORDER", " ", "BY", " ",
      "total_billed_including_tax", " ", "DESC", "\n", "LIMIT", " ", "1",
      "\n">>

sql_TOP_SERVICES_BY_REVENUE(limit) ==
    <<"\n", "SELECT", "\n", "li", ".", "service_name", ",", "\n", "SUM", "(",
      "(", "li", ".", "quantity", " ", "*", " ", "li", ".", "unit_price",
      ")", " ", "*", " ", "(", "1", " ", "+", " ", "li", ".", "tax_rate",
      ")", ")", " ", "AS", " ", "total_revenue_including_tax", "\n", "FROM",
      " ", "invoice_line_items", " ", "li", "\n", "JOIN", " ", "invoices",
      " ", "i", " ", "ON", " ", "i", ".", "invoice_id", " ", "=", " ", "li",
      ".", "invoice_id", "\n", "WHERE", " ", "YEAR", "(", "i", ".",
      "invoice_date", ")", " ", "=", " ", ":", "year", "\n", "GROUP", " ",
      "BY", " ", "li", ".", "service_name", "\n", "ORDER", " ", "BY", " ",
      "total_revenue_including_tax", " ", "DESC", ",", " ", "li", ".",
      "service_name", "\n", "LIMIT", " ">>
    \o <<IntText(limit)>>
    \o <<"\n">>

sql_REVENUE_BY_COUNTRY ==
    <<"\n", "SELECT", "\n", "c", ".", "country", ",", "\n", "SUM", "(", "(",
      "li", ".", "quantity", " ", "*", " ", "li", ".", "unit_price", ")",
      " ", "*", " ", "(", "1", " ", "+", " ", "li", ".", "tax_rate", ")",
      ")", " ", "AS", " ", "total_billed_including_tax", "\n", "FROM", " ",
      "clients", " ", "c", "\n", "JOIN", " ", "invoices", " ", "i", " ",
      "ON", " ", "i", ".", "client_id", " ", "=", " ", "c", ".", "client_id",
      "\n", "JOIN", " ", "invoice_line_items", " ", "li", " ", "ON", " ",
      "li", ".", "invoice_id", " ", "=", " ", "i", ".", "invoice_id", "\n",
      "WHERE", " ", "YEAR", "(", "i", ".", "invoice_date", ")", " ", "=",
      " ", ":", "year", "\n", "GROUP", " ", "BY", " ", "c", ".", "country",
      "\n", "ORDER", " ", "BY", " ", "total_billed_including_tax", " ",
      "DESC", ",", " ", "c", ".", "country", "\n">>

sql_SERVICE_CLIENT_TOTALS ==
    <<"\n", "SELECT", "\n", "c", ".", "client_id", ",", "\n", "c", ".",
      "client_name", ",", "\n", "SUM", "(", "(", "li", ".", "quantity", " ",
      "*", " ", "li", ".", "unit_price", ")", " ", "*", " ", "(", "1", " ",
      "+", " ", "li", ".", "tax_rate", ")", ")", " ", "AS", " ",
      "total_paid_including_tax", "\n", "FROM", " ", "invoice_line_items",
      " ", "li", "\n", "JOIN", " ", "invoices", " ", "i", " ", "ON", " ",
      "i", ".", "invoice_id", " ", "=", " ", "li", ".", "invoice_id", "\n",
      "JOIN", " ", "clients", " ", "c", " ", "ON", " ", "c", ".",
      "client_id", " ", "=", " ", "i", ".", "client_id", "\n", "WHERE", " ",
      "li", ".", "service_name", " ", "=", " ", ":", "service_name", "\n",
      "AND", " ", "YEAR", "(", "i", ".", "invoice_date", ")", " ", "=", " ",
      ":", "year", "\n", "GROUP", " ", "BY", " ", "c", ".", "client_id", ",",
      " ", "c", ".", "client_name", "\n", "ORDER", " ", "BY", " ",
      "total_paid_including_tax", " ", "DESC", ",", " ", "c", ".",
      "client_name", "\n">>

sql_TOP_SERVICES_EU_H2(placeholders, limit) ==
    <<"\n", "SELECT", "\n", "li", ".", "service_name", ",", "\n", "SUM", "(",
      "(", "li", ".", "quantity", " ", "*", " ", "li", ".", "unit_price",
      ")", " ", "*", " ", "(", "1", " ", "+", " ", "li", ".", "tax_rate",
      ")", ")", " ", "AS", " ", "total_revenue_including_tax", "\n", "FROM",
      " ", "invoice_line_items", " ", "li", "\n", "JOIN", " ", "invoices",
      " ", "i", " ", "ON", " ", "i", ".", "invoice_id", " ", "=", " ", "li",
      ".", "invoice_id", "\n", "JOIN", " ", "clients", " ", "c", " ", "ON",
      " ", "c", ".", "client_id", " ", "=", " ", "i", ".", "client_id", "\n",
      "WHERE", " ", "i", ".", "invoice_date", " ", ">", "=", " ", ":",
      "start_date", "\n", "AND", " ", "i", ".", "invoice_date", " ", "<",
      "=", " ", ":", "end_date", "\n", "AND", " ", "c", ".", "country", " ",
      "IN", " ", "(">>
    \o placeholders
    \o <<")", "\n", "GROUP", " ", "BY", " ", "li", ".", "service_name", "\n",
      "ORDER", " ", "BY", " ", "total_revenue_including_tax", " ", "DESC",
      ",", " ", "li", ".", "service_name", "\n", "LIMIT", " ">>
    \o <<IntText(limit)>>
    \o <<"\n">>

\* one placeholder for the whole list
PlaceholdersSingle(i, n) == <<":", "c">>

\* ", ".join([f":c{i}" for i in range(n)]), from index i on
RECURSIVE Placeholders(_, _)
Placeholders(i, n) ==
    IF i >= n THEN <<>>
    ELSE <<":", "c" \o IntText(i)>>
         \o (IF i + 1 < n THEN <<",", " ">> ELSE <<>>)
         \o Placeholders(i + 1, n)

DefaultCountries == <<"UK", "France", "Germany", "Netherlands", "Spain", "Italy">>

\* return BuiltSQL(sql, params)
BuiltSQL(sql, ps) == [ok |-> TRUE, error |-> "", sql |-> sql, params |-> ps]

\* raise ValueError(f"Unsupported intent: {intent}")
UnsupportedEmptySQL == [ok |-> TRUE, error |-> "", sql |-> <<>>, params |-> <<>>]

Unsupported == [ok |-> FALSE, error |-> "ValueError", sql |-> <<>>, params |-> <<>>]

build_sql(plan) ==
    LET intent == plan.intent
        limit == _safe_limit(plan.limit, 3, 1, 50)
        countries == IF plan.countries = None \/ plan.countries[1] = <<>>
                     THEN DefaultCountries ELSE plan.countries[1]
        n == Len(countries)
    IN  CASE intent = "LIST_CLIENTS" -> BuiltSQL(sql_LIST_CLIENTS, <<>>)
          [] intent = "CLIENTS_BY_COUNTRY" ->
                BuiltSQL(sql_CLIENTS_BY_COUNTRY, [country |-> plan.country])
          [] intent = "INVOICES_BY_MONTH" ->
                BuiltSQL(sql_INVOICES_BY_MONTH,
                         [year |-> plan.year, month |-> plan.month])
          [] intent = "INVOICES_BY_STATUS" ->
                BuiltSQL(sql_INVOICES_BY_STATUS, [status |-> plan.status])
          [] intent = "CLIENT_INVOICES" ->
                BuiltSQL(sql_CLIENT_INVOICES, [client_name |-> plan.client_name])
          [] intent = "INVOICES_BY_CLIENT_AND_MONTH" ->
                BuiltSQL(sql_INVOICES_BY_CLIENT_AND_MONTH,
                         [client_name |-> plan.client_name, year |-> plan.year,
                          month |-> plan.month])
          [] intent = "OVERDUE_INVOICES_AS_OF_DATE" ->
                BuiltSQL(sql_OVERDUE_INVOICES_AS_OF_DATE,
                         [as_of_date |-> plan.as_of_date])
          [] intent = "INVOICE_LINE_ITEMS" ->
                BuiltSQL(sql_INVOICE_LINE_ITEMS, [invoice_id |-> plan.invoice_id])
          [] intent = "LINE_ITEM_COUNT_BY_SERVICE" ->
                BuiltSQL(sql_LINE_ITEM_COUNT_BY_SERVICE, <<>>)
          [] intent = "CLIENT_TOTAL_BILLED_BY_YEAR" ->
                BuiltSQL(sql_CLIENT_TOTAL_BILLED_BY_YEAR, [year |-> plan.year])
          [] intent = "TOP_CLIENT_BY_YEAR" ->
                BuiltSQL(sql_TOP_CLIENT_BY_YEAR, [year |-> plan.year])
          [] intent = "TOP_SERVICES_BY_REVENUE" ->
                BuiltSQL(sql_TOP_SERVICES_BY_REVENUE(limit), [year |-> plan.year])
          [] intent = "REVENUE_BY_COUNTRY" ->
                BuiltSQL(sql_REVENUE_BY_COUNTRY, [year |-> plan.year])
          [] intent = "SERVICE_CLIENT_TOTALS" ->
                BuiltSQL(sql_SERVICE_CLIENT_TOTALS,
                         [service_name |-> plan.service_name, year |-> plan.year])
          [] intent = "TOP_SERVICES_EU_H2" ->
                BuiltSQL(sql_TOP_SERVICES_EU_H2(Placeholders(0, n), limit),
                         [k \in {"c" \o IntText(i) : i \in 0..(n - 1)}
                                \cup {"start_date", "end_date"} |->
                            IF k = "start_date" THEN plan.start_date
                            ELSE IF k = "end_date" THEN plan.end_date
                            ELSE LET i == CHOOSE j \in 0..(n - 1) :
                                              k = "c" \o IntText(j)
                                 IN  Some(countries[i + 1])])
          [] OTHER -> Unsupported

-----------------------------------------------------------------------------
(* Router: ROUTER_RESULT_SCHEMA and the pydantic models.  A JSON object is *)
(* a function from its keys; JSON null is None and a value v is Some(v).   *)

Action == {"QUERY", "CLARIFY", "REFUSE"}

PlanFields ==
    {"intent", "client_name", "country", "invoice_id", "status", "year",
     "month", "as_of_date", "start_date", "end_date", "service_name", "limit",
     "countries", "rationale"}

ResultFields ==
    {"action", "plan", "clarifying_question", "missing_fields",
     "refusal_message", "rationale"}

\* required: every property; additionalProperties: false
QUERY_PLAN_SCHEMA(p) ==
    /\ DOMAIN p = PlanFields
    /\ p.intent \in Intent
    /\ p.month = None \/ (p.month[1] >= 1 /\ p.month[1] <= 12)
    /\ p.limit = None \/ (p.limit[1] >= 1 /\ p.limit[1] <= 50)

ROUTER_RESULT_SCHEMA(o) ==
    /\ DOMAIN o = ResultFields
    /\ o.action \in {"QUERY", "CLARIFY", "REFUSE"}
    /\ o.plan = None \/ QUERY_PLAN_SCHEMA(o.plan[1])

\* a field of the input, or the default of the model's field
Get(o, k, default) == IF k \in DOMAIN o THEN o[k] ELSE default

ValidationError == [ok |-> FALSE, value |-> <<>>]

\* QueryPlan.model_validate: intent is required, every other field defaults
\* to None, unknown keys are ignored
QueryPlan(p) ==
    LET month == Get(p, "month", None)
        limit == Get(p, "limit", None)
    IN  IF /\ "intent" \in DOMAIN p
           /\ p.intent \in Intent
           /\ month = None \/ (month[1] >= 1 /\ month[1] <= 12)
           /\ limit = None \/ (limit[1] >= 1 /\ limit[1] <= 50)
        THEN [ok |-> TRUE, value |-> [k \in PlanFields |-> Get(p, k, None)]]
        ELSE ValidationError

\* RouterResult.model_validate: action is required
RouterResult(o) ==
    LET planIn == Get(o, "plan", None)
        plan == IF planIn = None THEN [ok |-> TRUE, value |-> None]
                ELSE LET q == QueryPlan(planIn[1])
                     IN  [ok |-> q.ok, value |-> Some(q.value)]
    IN  IF /\ "action" \in DOMAIN o
           /\ o.action \in Action
           /\ plan.ok
        THEN [ok |-> TRUE,
              value |-> [action |-> o.action,
                         plan |-> plan.value,
                         clarifying_question |-> Get(o, "clarifying_question", None),
                         missing_fields |-> Get(o, "missing_fields", <<>>),
                         refusal_message |-> Get(o, "refusal_message", None),
                         rationale |-> Get(o, "rationale", None)]]
        ELSE ValidationError

\* Router.route, given the outcome of its llm.json_schema call
Router_route(out) == IF out.ok THEN RouterResult(out.obj[1]) ELSE ValidationError

-----------------------------------------------------------------------------
(* The JSON objects the model may answer the router with *)

Limits == {None, Some(1), Some(50)}

CountryLists == {None, Some(<<>>), Some(<<"France", "Spain">>)}

PlanOf(intent, limit, countries, filled) ==
    LET slot(v) == IF filled THEN Some(v) ELSE None
    IN  [intent |-> intent,
         client_name |-> slot("Acme"),
         country |-> slot("France"),
         invoice_id |-> slot("INV-1"),
         status |-> slot("Paid"),
         year |-> slot(2024),
         month |-> slot(12),
         as_of_date |-> slot("2024-12-31"),
         start_date |-> slot("2024-07-01"),
         end_date |-> slot("2024-12-31"),
         service_name |-> slot("Audit"),
         limit |-> limit,
         countries |-> countries,
         rationale |-> None]

Plans ==
    {PlanOf(i, l, c, f) : i \in Intent, l \in Limits, c \in CountryLists,
                          f \in BOOLEAN}

ResultOf(a, plan, cq, mf, rm) ==
    [action |-> a, plan |-> plan, clarifying_question |-> cq,
     missing_fields |-> mf, refusal_message |-> rm, rationale |-> None]

SchemaObjects ==
    {ResultOf(a, pl, cq, mf, rm) :
        a \in Action,
        pl \in {None} \cup {Some(q) : q \in Plans},
        cq \in {None, Some("Which year?")},
        mf \in {<<>>, <<"year">>},
        rm \in {None, Some("Out of scope.")}}

BasePlan == PlanOf("LIST_CLIENTS", None, None, FALSE)

BaseObject == ResultOf("QUERY", Some(BasePlan), None, <<>>, None)

\* objects that are not instances of ROUTER_RESULT_SCHEMA
OffSchemaObjects ==
    {[k \in ResultFields \ {"rationale"} |-> BaseObject[k]],
     [k \in ResultFields \cup {"debug"} |->
        IF k = "debug" THEN None ELSE BaseObject[k]],
     [BaseObject EXCEPT !.action = "ANSWER"],
     [BaseObject EXCEPT !.plan = Some([BasePlan EXCEPT !.intent = "UNKNOWN"])],
     [BaseObject EXCEPT !.plan = Some([BasePlan EXCEPT !.limit = Some(200)])],
     [BaseObject EXCEPT !.plan = Some([BasePlan EXCEPT !.month = Some(13)])],
     [BaseObject EXCEPT !.plan =
        Some([k \in PlanFields \ {"limit"} |-> BasePlan[k]])]}

LLMObjects == SchemaObjects \cup OffSchemaObjects

\* the outcome of llm.json_schema: an API failure, or one of the objects
LLMJson ==
    {[ok |-> FALSE, obj |-> None]} \cup {[ok |-> TRUE, obj |-> Some(o)] : o \in LLMObjects}

-----------------------------------------------------------------------------
(* Freeform SQL generator, SQL agent and answer synthesizer *)

\* the texts the model may answer the SQL generator with
FreeformTexts ==
    {<<"SELECT", " ", "*", " ", "FROM", " ", "clients">>,
     <<"SELECT", " ", "COUNT", "(", "*", ")", " ", "FROM", " ", "invoices", ";", "\n">>,
     <<"SELECT", " ", "*", " ", "FROM", " ", "secrets">>,
     <<"DROP", " ", "TABLE", " ", "clients">>,
     <<"SELECT", " ", "*", " ", "FROM", " ", "clients", " ", "--", " ", "all">>,
     <<"SELECT", " ", "*", " ", "FROM", " ", "clients", ";", " ",
       "SELECT", " ", "x", " ", "FROM", " ", "clients", " ", "LIMIT", " ", "5">>}

\* the outcome of llm.text: an API failure, or one of the texts
LLMText(texts) ==
    {[ok |-> FALSE, text |-> <<>>]} \cup {[ok |-> TRUE, text |-> t] : t \in texts}

\* FreeformSQL(raw_sql=raw + ";", safe_sql=safe), or the error of the validator
FreeformSQL(raw, safe) ==
    IF safe.ok
    THEN [ok |-> TRUE, error |-> "", raw_sql |-> raw \o <<";">>,
          safe_sql |-> safe.sql]
    ELSE [ok |-> FALSE, error |-> safe.error, raw_sql |-> <<>>, safe_sql |-> <<>>]

\* the body of generate and of repair after raw = llm.text(...).strip().rstrip(";")
Validated(raw) == FreeformSQL(raw, enforce_sql_safety(raw, SQLSafetyConfig))

APIError == [ok |-> FALSE, error |-> "APIError", raw_sql |-> <<>>, safe_sql |-> <<>>]

\* FreeformSQLGenerator.generate, given the outcome of its llm.text call
generate(out) ==
    IF out.ok THEN Validated(RStripSemi(Strip(out.text))) ELSE APIError

\* FreeformSQLGenerator.repair, given the outcome of its llm.text call
repair(out) ==
    IF out.ok THEN Validated(RStripSemi(Strip(out.text))) ELSE APIError

MaxRows == 51

Rows(n) == [i \in 1..n |-> [invoice_id |-> i]]

\* the number of parentheses open before atom i, comments left out
ParenDepth(s, i) ==
    Cardinality({j \in 1..(i - 1) : s[j] = "(" /\ ~InComment(s, j)})
    - Cardinality({j \in 1..(i - 1) : s[j] = ")" /\ ~InComment(s, j)})

\* atom i belongs to the first statement, outside comments and subqueries
OuterAtom(s, i) ==
    /\ ~InComment(s, i)
    /\ ParenDepth(s, i) = 0
    /\ \A j \in 1..(i - 1) : s[j] = ";" => InComment(s, j)

\* the count of the LIMIT clause of the statement the database executes
LimitOf(s) ==
    LET at == {i \in 1..(Len(s) - 2) :
                  /\ Lower(s[i]) = "limit"
                  /\ s[i + 2] \in NumberTexts
                  /\ OuterAtom(s, i)}
    IN  IF at = {} THEN None
        ELSE Some(CHOOSE n \in 0..200 : \E i \in at : IntText(n) = s[i + 2])

\* what the database answers an execution with: an error, or the rows that
\* match (none, one or MaxRows of them), cut at the statement's LIMIT
DBOutcomes(sent) ==
    {[ok |-> FALSE, rows |-> <<>>]}
        \cup {[ok |-> TRUE,
               rows |-> Rows(IF lim = None THEN n ELSE Min(n, lim[1]))] :
                 n \in {0, 1, MaxRows}, lim \in {LimitOf(sent)}}

\* run_sql after safe_sql = enforce_sql_safety(sql, self.safety_cfg): its
\* possible outcomes; sent: the text given to conn.execute, if any
Execute(safe_sql, ps) ==
    IF ~safe_sql.ok
    THEN {[ok |-> FALSE, error |-> safe_sql.error, sent |-> <<>>, result |-> <<>>]}
    ELSE {IF ~db.ok
          THEN [ok |-> FALSE, error |-> "DBAPIError", sent |-> <<safe_sql.sql>>,
                result |-> <<>>]
          ELSE [ok |-> TRUE, error |-> "", sent |-> <<safe_sql.sql>>,
                result |-> <<[sql |-> safe_sql.sql, params |-> ps,
                              rows |-> db.rows, row_count |-> Len(db.rows)]>>]
          : db \in DBOutcomes(safe_sql.sql)}

\* the text is executed as it was given
run_sql_unvalidated(sql, ps) == Execute(Return(sql), ps)

\* SQLAgent.run_sql
run_sql(sql, ps) == Execute(enforce_sql_safety(sql, SQLSafetyConfig), ps)

\* _NUM_RE matches from atom i on: digits, optionally [.,] and digits, not
\* preceded by a letter
RECURSIVE NumbersFrom(_, _)
NumbersFrom(s, i) ==
    IF i > Len(s) THEN {}
    ELSE IF s[i] \in NumberTexts /\ (i = 1 \/ ~IsWord(s[i - 1]))
    THEN IF i + 2 <= Len(s) /\ s[i + 1] \in {".", ","} /\ s[i + 2] \in NumberTexts
         THEN {s[i] \o s[i + 1] \o s[i + 2]} \cup NumbersFrom(s, i + 3)
         ELSE {s[i]} \cup NumbersFrom(s, i + 1)
    ELSE NumbersFrom(s, i + 1)

_numbers_in_text(s) == NumbersFrom(s, 1)

\* the numbers of json.dumps(rows)
_numbers_in_rows(rows) == {IntText(rows[i].invoice_id) : i \in 1..Len(rows)}

\* the texts the model may answer the synthesizer with
Answers ==
    {<<"See", " ", "table", "\n">>, <<"Total", " ", "1">>, <<"Total", " ", "99">>}

\* synthesize: the numbers of the draft that the rows do not hold
Extra(draft, rows) == _numbers_in_text(draft) \ _numbers_in_rows(rows)

-----------------------------------------------------------------------------
(* POST /chat *)

\* an exception of the given type, raised by the n-th call of the request
Err(type, n) == Some([type |-> type, at |-> n])

\* ChatResponse with every optional field at its default
ChatResponse(action) ==
    [action |-> action, mode |-> None, narrative |-> None,
     clarifying_question |-> None, missing_fields |-> <<>>,
     refusal_message |-> None, sql |-> None, params |-> <<>>, rows |-> <<>>,
     row_count |-> 0]

\* row_count taken from the rows that are returned
QueryResponseTruncatedCount(m, narrative, r) ==
    [ChatResponse("QUERY") EXCEPT
        !.mode = Some(m),
        !.narrative = Some(narrative),
        !.sql = Some(r.sql),
        !.params = r.params,
        !.rows = SubSeq(r.rows, 1, Min(50, Len(r.rows))),
        !.row_count = Min(50, Len(r.rows))]

\* the response of a request that ran a query
QueryResponse(m, narrative, r) ==
    [ChatResponse("QUERY") EXCEPT
        !.mode = Some(m),
        !.narrative = Some(narrative),
        !.sql = Some(r.sql),
        !.params = r.params,
        !.rows = SubSeq(r.rows, 1, Min(50, Len(r.rows))),
        !.row_count = Len(r.rows)]

\* mode in the except branch of the hybrid selection
ExceptModeDeterministic == "deterministic"

ExceptMode == "freeform"

\* where the handler goes when the first run_sql raises
OnRunFailureAlwaysRepair(m) == "repair"

OnRunFailure(m) == IF m = "freeform" THEN "repair" ELSE "failed"

\* where the handler goes when the run of the repaired SQL raises
OnRepairedRunFailureRetry == "repair"

OnRepairedRunFailure == "failed"

\* which return or stage follows the routing decision
DispatchClarifyAsQuery(r) == IF r.action = "REFUSE" THEN "refuse" ELSE "query"

Dispatch(r) ==
    IF r.action = "REFUSE" THEN "refuse"
    ELSE IF r.action = "CLARIFY" THEN "clarify"
    ELSE "query"

ChatInit ==
    /\ spc = "off" /\ sqlIn = <<>>
    /\ out1 = NoOutcome /\ out2 = NoOutcome
    /\ pc = "route" /\ llm_obj = None /\ route = None /\ mode = ""
    /\ sql_text = <<>> /\ params = <<>> /\ answer = None /\ run = None
    /\ calls = <<>> /\ raised = <<>> /\ executed = <<>> /\ sql_source = ""
    /\ llm_calls = 0 /\ failure = None /\ resp = None
    /\ ff = <<>> /\ runs = <<>> /\ synth_calls = <<>>
    /\ BuilderOff /\ SessionOff /\ QueryOff /\ ConcOff

\* route = router.route(q)
ChatRoute ==
    /\ pc = "route"
    /\ \E out \in LLMJson : \E r \in {Router_route(out)} :
        LET e == Err(IF out.ok THEN "ValidationError" ELSE "APIError", 1)
        IN  /\ llm_obj' = out.obj
            /\ calls' = Append(calls, "router.route")
            /\ llm_calls' = llm_calls + 1
            /\ route' = IF r.ok THEN Some(r.value) ELSE None
            /\ raised' = Append(raised, IF r.ok THEN None ELSE e)
            /\ failure' = IF r.ok THEN None ELSE e
            /\ pc' = IF r.ok THEN "routed" ELSE "failed"
    /\ UNCHANGED <<mode, sql_text, params, answer, run, executed, sql_source, resp>>
    /\ UNCHANGED <<ff, runs, synth_calls>>
    /\ UNCHANGED <<safetyVars, builderVars, sessionVars, queryVars, concVars>>

\* if route.action == "REFUSE": return ChatResponse(...)
ChatRefuse ==
    /\ pc = "routed"
    /\ Dispatch(route[1]) = "refuse"
    /\ resp' = Some([ChatResponse("REFUSE") EXCEPT
                        !.refusal_message = route[1].refusal_message])
    /\ pc' = "done"
    /\ UNCHANGED <<llm_obj, route, mode, sql_text, params, answer, run, calls,
                   raised, executed, sql_source, llm_calls, failure>>
    /\ UNCHANGED <<ff, runs, synth_calls>>
    /\ UNCHANGED <<safetyVars, builderVars, sessionVars, queryVars, concVars>>

\* if route.action == "CLARIFY": return ChatResponse(...)
ChatClarify ==
    /\ pc = "routed"
    /\ Dispatch(route[1]) = "clarify"
    /\ resp' = Some([ChatResponse("CLARIFY") EXCEPT
                        !.clarifying_question = route[1].clarifying_question,
                        !.missing_fields =
                            IF route[1].missing_fields # <<>>
                            THEN route[1].missing_fields ELSE <<>>])
    /\ pc' = "done"
    /\ UNCHANGED <<llm_obj, route, mode, sql_text, params, answer, run, calls,
                   raised, executed, sql_source, llm_calls, failure>>
    /\ UNCHANGED <<ff, runs, synth_calls>>
    /\ UNCHANGED <<safetyVars, builderVars, sessionVars, queryVars, concVars>>

\* the try block of the hybrid selection, and the first lines of its except
\* branch: reading plan.intent of a null plan raises AttributeError
ChatBuild ==
    /\ pc = "routed"
    /\ Dispatch(route[1]) = "query"
    /\ LET plan == route[1].plan
       IN  IF plan = None \/ plan[1].intent = "FREEFORM_SQL"
           THEN /\ mode' = ExceptMode
                /\ pc' = "generate"
                /\ UNCHANGED <<sql_text, params, calls, raised, sql_source>>
           ELSE \E built \in {build_sql(plan[1])} :
                    /\ calls' = Append(calls, "build_sql")
                    /\ raised' = Append(raised,
                            IF built.ok THEN None
                            ELSE Err(built.error, Len(calls) + 1))
                    /\ mode' = IF built.ok THEN "deterministic" ELSE ExceptMode
                    /\ sql_text' = IF built.ok THEN built.sql ELSE sql_text
                    /\ params' = IF built.ok THEN built.params ELSE params
                    /\ sql_source' = IF built.ok THEN "build_sql" ELSE sql_source
                    /\ pc' = IF built.ok THEN "execute" ELSE "generate"
    /\ UNCHANGED <<llm_obj, route, answer, run, executed, llm_calls, failure, resp>>
    /\ UNCHANGED <<ff, runs, synth_calls>>
    /\ UNCHANGED <<safetyVars, builderVars, sessionVars, queryVars, concVars>>

\* ff = freeform.generate(q); sql_text, params = ff.safe_sql, {}
ChatGenerate ==
    /\ pc = "generate"
    /\ \E ff1 \in {generate(out) : out \in LLMText(FreeformTexts)} :
        LET ok == ff1.ok
            e == Err(ff1.error, Len(calls) + 1)
        IN  /\ calls' = Append(calls, "freeform.generate")
            /\ llm_calls' = llm_calls + 1
            /\ raised' = Append(raised, IF ok THEN None ELSE e)
            /\ sql_text' = IF ok THEN ff1.safe_sql ELSE sql_text
            /\ sql_source' = IF ok THEN "freeform.generate" ELSE sql_source
            /\ ff' = IF ok THEN Append(ff, [raw_sql |-> ff1.raw_sql,
                                            safe_sql |-> ff1.safe_sql])
                     ELSE ff
            /\ failure' = IF ok THEN None ELSE e
            /\ pc' = IF ok THEN "execute" ELSE "failed"
    /\ params' = <<>>
    /\ UNCHANGED <<llm_obj, route, mode, answer, run, executed, resp, runs>>
    /\ UNCHANGED <<synth_calls>>
    /\ UNCHANGED <<safetyVars, builderVars, sessionVars, queryVars, concVars>>

\* run = sql_agent.run_sql(sql_text, params), and the except branch up to
\* the repair call
ChatExecute ==
    /\ pc = "execute"
    /\ \E r \in run_sql(sql_text, params) :
        LET e == Err(r.error, Len(calls) + 1)
            to == IF r.ok THEN "synthesize" ELSE OnRunFailure(mode)
        IN  /\ calls' = Append(calls, "run_sql")
            /\ raised' = Append(raised, IF r.ok THEN None ELSE e)
            /\ executed' = executed \o r.sent
            /\ run' = r.result
            /\ runs' = Append(runs, [sql |-> sql_text, params |-> params,
                                     sent |-> r.sent, result |-> r.result])
            /\ failure' = IF to = "failed" THEN e ELSE None
            /\ pc' = to
    /\ UNCHANGED <<llm_obj, route, mode, sql_text, params, answer, sql_source,
                   llm_calls, resp, ff>>
    /\ UNCHANGED <<synth_calls>>
    /\ UNCHANGED <<safetyVars, builderVars, sessionVars, queryVars, concVars>>

\* ff2 = freeform.repair(q, sql_text, str(e)); sql_text, params = ff2.safe_sql, {}
ChatRepair ==
    /\ pc = "repair"
    /\ \E ff2 \in {repair(out) : out \in LLMText(FreeformTexts)} :
        LET ok == ff2.ok
            e == Err(ff2.error, Len(calls) + 1)
        IN  /\ calls' = Append(calls, "freeform.repair")
            /\ llm_calls' = llm_calls + 1
            /\ raised' = Append(raised, IF ok THEN None ELSE e)
            /\ sql_text' = IF ok THEN ff2.safe_sql ELSE sql_text
            /\ sql_source' = IF ok THEN "freeform.repair" ELSE sql_source
            /\ ff' = IF ok THEN Append(ff, [raw_sql |-> ff2.raw_sql,
                                            safe_sql |-> ff2.safe_sql])
                     ELSE ff
            /\ failure' = IF ok THEN None ELSE e
            /\ pc' = IF ok THEN "execute_repaired" ELSE "failed"
    /\ params' = <<>>
    /\ UNCHANGED <<llm_obj, route, mode, answer, run, executed, resp, runs>>
    /\ UNCHANGED <<synth_calls>>
    /\ UNCHANGED <<safetyVars, builderVars, sessionVars, queryVars, concVars>>

\* run = sql_agent.run_sql(sql_text, params) inside the except branch
ChatExecuteRepaired ==
    /\ pc = "execute_repaired"
    /\ \E r \in run_sql(sql_text, params) :
        LET e == Err(r.error, Len(calls) + 1)
            to == IF r.ok THEN "synthesize" ELSE OnRepairedRunFailure
        IN  /\ calls' = Append(calls, "run_sql")
            /\ raised' = Append(raised, IF r.ok THEN None ELSE e)
            /\ executed' = executed \o r.sent
            /\ run' = r.result
            /\ runs' = Append(runs, [sql |-> sql_text, params |-> params,
                                     sent |-> r.sent, result |-> r.result])
            /\ failure' = IF to = "failed" THEN e ELSE None
            /\ pc' = to
    /\ UNCHANGED <<llm_obj, route, mode, sql_text, params, answer, sql_source,
                   llm_calls, resp, ff>>
    /\ UNCHANGED <<synth_calls>>
    /\ UNCHANGED <<safetyVars, builderVars, sessionVars, queryVars, concVars>>

\* if extra: the draft is re-prompted when it holds unsupported numbers
NeedsFixNever(extra) == FALSE

NeedsFix(extra) == extra # {}

\* one llm.text call of synthesize: the numbers its prompt lists as
\* unsupported, and the text the model returned (None: the call raised)
SynthCall(listed, out) ==
    [listed |-> listed, text |-> IF out.ok THEN Some(out.text) ELSE None]

\* narrative = synth.synthesize(q, run.sql, run.rows), up to the numeric
\* guard; return ChatResponse(...) when the guard passes
ChatSynthesize ==
    /\ pc = "synthesize"
    /\ \E out \in LLMText(Answers) :
        LET draft == Strip(out.text)
            clean == ~NeedsFix(Extra(draft, run[1].rows))
            e == Err("APIError", Len(calls) + 1)
        IN  /\ calls' = Append(calls, "synthesize")
            /\ llm_calls' = llm_calls + 1
            /\ synth_calls' = Append(synth_calls, SynthCall({}, out))
            /\ answer' = IF out.ok THEN Some(draft) ELSE None
            /\ raised' = IF ~out.ok THEN Append(raised, e)
                         ELSE IF clean THEN Append(raised, None)
                         ELSE raised
            /\ failure' = IF out.ok THEN None ELSE e
            /\ resp' = IF out.ok /\ clean
                       THEN Some(QueryResponse(mode, draft, run[1]))
                       ELSE None
            /\ pc' = IF ~out.ok THEN "failed"
                     ELSE IF clean THEN "done"
                     ELSE "synthesize_fix"
    /\ UNCHANGED <<llm_obj, route, mode, sql_text, params, run, executed,
                   sql_source>>
    /\ UNCHANGED <<ff, runs>>
    /\ UNCHANGED <<safetyVars, builderVars, sessionVars, queryVars, concVars>>

\* the guard is applied again to the rewritten answer
AfterFixGuarded(extra) == IF extra # {} THEN "synthesize_fix" ELSE "done"

\* answer = self.llm.text(SYSTEM, fix_user).strip(); return answer
AfterFix(extra) == "done"

\* the corrective re-prompt of synthesize; return ChatResponse(...)
ChatSynthesizeFix ==
    /\ pc = "synthesize_fix"
    /\ \E out \in LLMText(Answers) :
        LET fixed == Strip(out.text)
            e == Err("APIError", Len(calls))
        IN  /\ llm_calls' = llm_calls + 1
            /\ synth_calls' = Append(synth_calls,
                    SynthCall(Extra(answer[1], run[1].rows), out))
            /\ answer' = IF out.ok THEN Some(fixed) ELSE answer
            /\ raised' = Append(raised, IF out.ok THEN None ELSE e)
            /\ failure' = IF out.ok THEN None ELSE e
            /\ pc' = IF out.ok THEN AfterFix(Extra(fixed, run[1].rows)) ELSE "failed"
            /\ resp' = IF pc' = "done" THEN Some(QueryResponse(mode, fixed, run[1]))
                       ELSE None
    /\ UNCHANGED <<llm_obj, route, mode, sql_text, params, run, calls, executed,
                   sql_source>>
    /\ UNCHANGED <<ff, runs>>
    /\ UNCHANGED <<safetyVars, builderVars, sessionVars, queryVars, concVars>>

Next ==
    \/ ChatRoute
    \/ ChatRefuse
    \/ ChatClarify
    \/ ChatBuild
    \/ ChatGenerate
    \/ ChatExecute
    \/ ChatRepair
    \/ ChatExecuteRepaired
    \/ ChatSynthesize
    \/ ChatSynthesizeFix

Spec == ChatInit /\ [][Next]_vars

-----------------------------------------------------------------------------
(* Properties of POST /chat *)

\* how many times the handler called name
CallCount(name) == Cardinality({i \in 1..Len(calls) : calls[i] = name})

\* the i-th call of the request raised
Raised(i) == i <= Len(raised) /\ raised[i] # None

\* C6: in one request freeform.repair is called at most once, only in
\* freeform mode and only right after the first run_sql raised; when the
\* run of the repaired SQL raises as well, the request fails with that error
\* and nothing is called afterwards: no second repair, no third run, no
\* synthesize.
C6_AtMostOneRepair ==
    /\ CallCount("freeform.repair") <= 1
    /\ CallCount("run_sql") <= 2
    /\ \A i \in 1..Len(calls) :
        calls[i] = "freeform.repair" =>
            /\ mode = "freeform"
            /\ i > 1 /\ calls[i - 1] = "run_sql" /\ Raised(i - 1)
            /\ \A k \in 1..(i - 2) : calls[k] # "run_sql"
    /\ \A i \in 1..Len(calls) :
        (/\ calls[i] = "run_sql" /\ Raised(i)
         /\ \E k \in 1..(i - 1) : calls[k] = "freeform.repair") =>
            /\ i = Len(calls)
            /\ pc = "failed"
            /\ failure = raised[i]
            /\ resp = None

\* a request whose repaired SQL failed too
C6_Witness ==
    /\ pc = "failed"
    /\ calls = <<"router.route", "freeform.generate", "run_sql",
                 "freeform.repair", "run_sql">>
    /\ Raised(3) /\ Raised(5)
    /\ failure = raised[5]

\* C7: when run_sql raises on SQL that build_sql returned, the request fails
\* with that same error; freeform.generate, freeform.repair and synthesize
\* are not called and no response is returned.
C7_DeterministicFailureFatal ==
    \A i \in 1..Len(calls) :
        (/\ calls[i] = "run_sql" /\ Raised(i)
         /\ \E k \in 1..(i - 1) : calls[k] = "build_sql" /\ ~Raised(k)) =>
            /\ i = Len(calls)
            /\ pc = "failed"
            /\ failure = raised[i]
            /\ resp = None
            /\ \A k \in 1..Len(calls) :
                calls[k] \notin {"freeform.generate", "freeform.repair", "synthesize"}

\* a deterministic request whose execution failed
C7_Witness ==
    /\ pc = "failed"
    /\ mode = "deterministic"
    /\ calls = <<"router.route", "build_sql", "run_sql">>
    /\ Raised(3) /\ raised[3][1].type = "DBAPIError"
    /\ failure = raised[3]

\* C8: after a REFUSE or CLARIFY routing decision the only call of the
\* request is the router's, nothing is sent to the database, and the
\* response holds the refusal message, or the clarifying question and the
\* missing fields, with every other field at its default.
C8_RefuseClarifyTerminal ==
    (route # None /\ route[1].action \in {"REFUSE", "CLARIFY"}) =>
        /\ calls = <<"router.route">>
        /\ executed = <<>>
        /\ llm_calls = 1
        /\ pc \in {"routed", "done"}
        /\ failure = None
        /\ pc = "done" =>
            resp = Some([action |-> route[1].action,
                         mode |-> None,
                         narrative |-> None,
                         clarifying_question |->
                            IF route[1].action = "CLARIFY"
                            THEN route[1].clarifying_question ELSE None,
                         missing_fields |->
                            IF route[1].action = "CLARIFY"
                            THEN route[1].missing_fields ELSE <<>>,
                         refusal_message |->
                            IF route[1].action = "REFUSE"
                            THEN route[1].refusal_message ELSE None,
                         sql |-> None,
                         params |-> <<>>,
                         rows |-> <<>>,
                         row_count |-> 0])

\* a CLARIFY response that lists a missing field
C8_Witness ==
    /\ pc = "done"
    /\ resp # None
    /\ resp[1].action = "CLARIFY"
    /\ resp[1].clarifying_question # None
    /\ resp[1].missing_fields # <<>>

\* a REFUSE response
C8_WitnessRefuse ==
    /\ pc = "done"
    /\ resp # None
    /\ resp[1].action = "REFUSE"
    /\ resp[1].refusal_message # None

\* C9: once the SQL source of a QUERY plan is selected: intent FREEFORM_SQL
\* went to freeform.generate and build_sql was not called; an intent with a
\* template went to build_sql and then to run_sql in deterministic mode
\* without a freeform call; a build_sql call that raised is followed by
\* freeform.generate.  A QUERY response reports mode freeform exactly when
\* the SQL that ran came from the freeform generator.
C9_SqlSourceSelection ==
    /\ (/\ route # None /\ route[1].action = "QUERY" /\ route[1].plan # None
        /\ pc # "routed") =>
            IF route[1].plan[1].intent = "FREEFORM_SQL"
            THEN /\ CallCount("build_sql") = 0
                 /\ mode = "freeform"
                 /\ Len(calls) >= 2 => calls[2] = "freeform.generate"
            ELSE /\ calls[2] = "build_sql"
                 /\ IF Raised(2)
                    THEN /\ mode = "freeform"
                         /\ Len(calls) >= 3 => calls[3] = "freeform.generate"
                    ELSE /\ mode = "deterministic"
                         /\ CallCount("freeform.generate") = 0
                         /\ CallCount("freeform.repair") = 0
                         /\ Len(calls) >= 3 => calls[3] = "run_sql"
    /\ (resp # None /\ resp[1].action = "QUERY") =>
            /\ resp[1].mode \in {Some("freeform"), Some("deterministic")}
            /\ resp[1].mode = Some("freeform")
                <=> sql_source \in {"freeform.generate", "freeform.repair"}
            /\ resp[1].mode = Some("deterministic") <=> sql_source = "build_sql"

\* a freeform plan answered in freeform mode
C9_Witness ==
    /\ resp # None
    /\ resp[1].action = "QUERY"
    /\ resp[1].mode = Some("freeform")
    /\ route[1].plan # None
    /\ route[1].plan[1].intent = "FREEFORM_SQL"
    /\ calls[2] = "freeform.generate"

\* a template plan answered in deterministic mode
C9_WitnessDeterministic ==
    /\ resp # None
    /\ resp[1].action = "QUERY"
    /\ resp[1].mode = Some("deterministic")
    /\ route[1].plan[1].intent = "TOP_SERVICES_EU_H2"
    /\ calls = <<"router.route", "build_sql", "run_sql", "synthesize">>

\* C10: every RouterResult that route returns for an object that is an
\* instance of ROUTER_RESULT_SCHEMA has the payload of its action: QUERY a
\* plan, no clarifying question and no missing fields; CLARIFY no plan, a
\* clarifying question and missing fields; REFUSE no plan and a refusal
\* message.
C10_ActionPayloadInvariant ==
    (route # None /\ ROUTER_RESULT_SCHEMA(llm_obj[1])) =>
        /\ route[1].action = "QUERY" =>
            /\ route[1].plan # None
            /\ route[1].clarifying_question = None
            /\ route[1].missing_fields = <<>>
        /\ route[1].action = "CLARIFY" =>
            /\ route[1].plan = None
            /\ route[1].clarifying_question # None
            /\ route[1].missing_fields # <<>>
        /\ route[1].action = "REFUSE" =>
            /\ route[1].plan = None
            /\ route[1].refusal_message # None

-----------------------------------------------------------------------------
(* Properties of AnswerSynth.synthesize, as called by POST /chat *)

\* synthesize returned and the handler built its response
SynthReturned == resp # None /\ resp[1].action = "QUERY"

\* the numbers of the draft that the serialized rows do not hold
Unsupported1 ==
    _numbers_in_text(Strip(synth_calls[1].text[1])) \ _numbers_in_rows(run[1].rows)

\* C11: synthesize makes one model call when every number of the draft
\* occurs in the rows and two otherwise, the second one listing the
\* unsupported numbers; it never makes a third call, and it returns the
\* (stripped) text of its last call.
C11_SynthesizeCallCount ==
    /\ Len(synth_calls) <= 2
    /\ llm_calls = CallCount("router.route") + CallCount("freeform.generate")
                    + CallCount("freeform.repair") + Len(synth_calls)
    /\ pc = "synthesize_fix" => Len(synth_calls) = 1
    /\ SynthReturned =>
        /\ Len(synth_calls) = (IF Unsupported1 = {} THEN 1 ELSE 2)
        /\ synth_calls[1].listed = {}
        /\ Len(synth_calls) = 2 => synth_calls[2].listed = Unsupported1
        /\ resp[1].narrative =
                Some(Strip(synth_calls[Len(synth_calls)].text[1]))

\* a draft with the unsupported number 99 was re-prompted once
C11_Witness ==
    /\ SynthReturned
    /\ Len(synth_calls) = 2
    /\ synth_calls[2].listed = {"99"}
    /\ run[1].rows # <<>>

\* a draft whose only number occurs in the rows was returned as it is
C11_WitnessOneCall ==
    /\ SynthReturned
    /\ Len(synth_calls) = 1
    /\ _numbers_in_text(resp[1].narrative[1]) = {"1"}

\* C12: the narrative that synthesize returns holds no number that the
\* row data does not hold.
C12_NarrativeNumbersSupported ==
    SynthReturned =>
        _numbers_in_text(resp[1].narrative[1]) \subseteq _numbers_in_rows(run[1].rows)

-----------------------------------------------------------------------------
(* build_sql called repeatedly on one plan object, checked under BuilderSpec *)

MaxBuilds == 2

\* plans beyond the router's: an intent outside the Literal, a limit
\* outside 1..50 or not a number, a single country, a repeated country
BuilderPlans ==
    Plans
    \cup {PlanOf("UNKNOWN", l, None, f) : l \in Limits, f \in BOOLEAN}
    \cup {PlanOf(i, Some(200), c, TRUE) :
            i \in {"TOP_SERVICES_BY_REVENUE", "TOP_SERVICES_EU_H2"},
            c \in {Some(<<"UK">>), Some(<<"UK", "UK", "France">>)}}
    \cup {PlanOf(i, Some(l), None, TRUE) :
            i \in {"TOP_SERVICES_BY_REVENUE", "TOP_SERVICES_EU_H2"},
            l \in {0, -5, 100, NonNumeric}}

\* the plan object after a build_sql call: build_sql only reads it
PlanAfterBuildClamped(plan) ==
    [plan EXCEPT !.limit = Some(_safe_limit(plan.limit, 3, 1, 50))]

PlanAfterBuild(plan) == plan

BuilderInit ==
    /\ spc = "off" /\ sqlIn = <<>> /\ out1 = NoOutcome /\ out2 = NoOutcome
    /\ ChatOff /\ SessionOff /\ QueryOff /\ ConcOff
    /\ bplan0 \in BuilderPlans
    /\ bplan = bplan0
    /\ builds = <<>>

\* build_sql(plan)
BuildCall ==
    /\ spc = "off" /\ pc = "off"
    /\ bplan # <<>>
    /\ Len(builds) < MaxBuilds
    /\ builds' = Append(builds, build_sql(bplan))
    /\ bplan' = PlanAfterBuild(bplan)
    /\ UNCHANGED <<bplan0, safetyVars, chatVars, sessionVars, queryVars, concVars>>

BuilderNext == BuildCall

BuilderSpec == BuilderInit /\ [][BuilderNext]_vars

\* the names of the :name placeholders of a SQL text
PlaceholderNames(sql) ==
    {sql[k + 1] : k \in {j \in 1..(Len(sql) - 1) :
                            /\ sql[j] = ":"
                            /\ IsWord(sql[j + 1])
                            /\ (j = 1 \/ sql[j - 1] # ":")}}

C14_PlaceholdersMatchParams ==
    \A i \in 1..Len(builds) :
        builds[i].ok => PlaceholderNames(builds[i].sql) = DOMAIN builds[i].params

\* the country list fell back to the six default countries
C14_Witness ==
    /\ Len(builds) >= 1
    /\ builds[1].ok
    /\ bplan0.intent = "TOP_SERVICES_EU_H2"
    /\ bplan0.countries = Some(<<>>)
    /\ bplan0.start_date = None
    /\ DOMAIN builds[1].params =
            {"c0", "c1", "c2", "c3", "c4", "c5", "start_date", "end_date"}

\* C15: build_sql returns a BuiltSQL for each of the 15 intents other than
\* FREEFORM_SQL, and raises the unsupported-intent ValueError, returning
\* no SQL, for FREEFORM_SQL and for every other intent value.
C15_TemplatesAndUnsupported ==
    \A i \in 1..Len(builds) :
        IF bplan0.intent \in Intent \ {"FREEFORM_SQL"}
        THEN builds[i].ok /\ builds[i].sql # <<>>
        ELSE ~builds[i].ok /\ builds[i].error = "ValueError" /\ builds[i].sql = <<>>

\* an intent outside the enumeration was rejected
C15_Witness ==
    /\ Len(builds) >= 1
    /\ bplan0.intent = "UNKNOWN"
    /\ ~builds[1].ok

\* FREEFORM_SQL was rejected
C15_WitnessFreeform ==
    /\ Len(builds) >= 1
    /\ bplan0.intent = "FREEFORM_SQL"
    /\ ~builds[1].ok

-----------------------------------------------------------------------------
(* Properties of SQLAgent.run_sql, as called by POST /chat *)

\* one run_sql call: what was sent is what the validator returned for the
\* argument, and the result holds the sent text and the number of rows
RunValidated(r, s) ==
    /\ r.sent = (IF s.ok THEN <<s.sql>> ELSE <<>>)
    /\ ~s.ok => r.result = <<>>
    /\ r.result # <<>> =>
        /\ r.result[1].sql = s.sql
        /\ r.result[1].params = r.params
        /\ r.result[1].row_count = Len(r.result[1].rows)

\* the texts the run_sql calls of the request sent to the database
SentByRuns ==
    (IF Len(runs) >= 1 THEN runs[1].sent ELSE <<>>)
        \o (IF Len(runs) >= 2 THEN runs[2].sent ELSE <<>>)

\* C16: every run_sql call sends to the database only what
\* enforce_sql_safety returned for its sql argument, and nothing when
\* enforce_sql_safety raises; the SQLRunResult holds the text that was sent
\* and the number of rows; nothing else of the request reaches the
\* database.  Each call is examined in the state it leads to.
C16_ValidateBeforeExecute ==
    /\ CallCount("run_sql") = Len(runs)
    /\ executed = SentByRuns
    /\ (calls # <<>> /\ calls[Len(calls)] = "run_sql") =>
        \E s \in {enforce_sql_safety(runs[Len(runs)].sql, SQLSafetyConfig)} :
            RunValidated(runs[Len(runs)], s)

\* a template text that was sent with the LIMIT the validator added
C16_Witness ==
    /\ Len(runs) = 1
    /\ runs[1].result # <<>>
    /\ runs[1].sent # <<runs[1].sql>>
    /\ runs[1].result[1].row_count = MaxRows

\* a text the validator rejected inside run_sql: nothing was sent
C16_WitnessRejected ==
    /\ Len(runs) >= 1
    /\ runs[1].sent = <<>>
    /\ Raised(Len(calls)) /\ raised[Len(calls)][1].type = "SQLSafetyError"
    /\ calls[Len(calls)] = "run_sql"

-----------------------------------------------------------------------------
(* Properties of the freeform path of POST /chat *)

\* C17: in freeform mode the text given to run_sql is the safe_sql of the
\* FreeformSQL that generate, and after a failure repair, returned, with
\* empty params, and the text that is executed equals that safe_sql.
C17_FreeformExecutesSafeSql ==
    mode = "freeform" =>
        \A i \in 1..Len(runs) :
            /\ i <= Len(ff)
            /\ runs[i].sql = ff[i].safe_sql
            /\ runs[i].params = <<>>
            /\ runs[i].sent # <<>> => runs[i].sent[1] = ff[i].safe_sql

\* the first 50 rows of a result
First50(rows) == [i \in 1..(IF Len(rows) < 50 THEN Len(rows) ELSE 50) |-> rows[i]]

\* C18: a response with action QUERY is returned only after a run_sql call
\* succeeded (the last one, and the only one that did) and synthesize
\* returned as the last call; it holds the narrative synthesize returned,
\* the rows of that run (the first 50), its sql and params, and as row_count
\* the number of rows the run returned.
C18_QueryResponseAfterRunAndSynth ==
    (resp # None /\ resp[1].action = "QUERY") =>
        /\ pc = "done" /\ failure = None
        /\ runs # <<>>
        /\ runs[Len(runs)].result # <<>>
        /\ \A i \in 1..(Len(runs) - 1) : runs[i].result = <<>>
        /\ CallCount("synthesize") = 1
        /\ calls[Len(calls)] = "synthesize" /\ ~Raised(Len(calls))
        /\ \E k \in 1..(Len(calls) - 1) : calls[k] = "run_sql" /\ ~Raised(k)
        /\ resp[1].narrative # None
        /\ resp[1].narrative =
                Some(Strip(synth_calls[Len(synth_calls)].text[1]))
        /\ resp[1].sql = Some(runs[Len(runs)].result[1].sql)
        /\ resp[1].sql = Some(runs[Len(runs)].sent[1])
        /\ resp[1].params = runs[Len(runs)].result[1].params
        /\ resp[1].rows = First50(runs[Len(runs)].result[1].rows)
        /\ resp[1].row_count = Len(runs[Len(runs)].result[1].rows)

\* a response after a repaired run that returned more than 50 rows
C18_Witness ==
    /\ resp # None
    /\ resp[1].action = "QUERY"
    /\ Len(runs) = 2
    /\ resp[1].row_count = MaxRows
    /\ Len(resp[1].rows) = 50
    /\ resp[1].narrative # None

\* C20: when the validator rejects the SQL the model returned for
\* freeform.generate, the request does not fail there: freeform.repair is
\* the next call; in deterministic mode a SQLSafetyError of run_sql fails
\* the request.
C20_RejectedGenerateIsRepaired ==
    /\ \A i \in 1..Len(calls) :
        (/\ calls[i] = "freeform.generate"
         /\ Raised(i) /\ raised[i][1].type = "SQLSafetyError") =>
            /\ ~(pc = "failed" /\ failure = raised[i])
            /\ i < Len(calls) => calls[i + 1] = "freeform.repair"
    /\ \A i \in 1..Len(calls) :
        (/\ calls[i] = "run_sql" /\ mode = "deterministic"
         /\ Raised(i) /\ raised[i][1].type = "SQLSafetyError") =>
            pc = "failed" /\ failure = raised[i]

-----------------------------------------------------------------------------
(* The Streamlit session (app/streamlit_app.py), checked under SessionSpec: *)
(* one action per script run for a submitted question, one for "Clear chat" *)

MaxAsks == 3

MaxClears == 1

\* the questions a user may type
Questions ==
    {<<"show", " ", "clients">>,
     <<" ", "SHOW", " ", "\n", "Clients", "\n">>,
     <<"show", " ", "invoices">>,
     <<"2024">>}

\* the atoms " ".join(q.strip().lower().split()) keeps: every non-blank
\* atom, and the first blank of a run of blanks between two words
KeptByNormalize(q) ==
    {i \in 1..Len(q) :
        \/ ~IsSpace(q[i])
        \/ /\ i > 1 /\ ~IsSpace(q[i - 1])
           /\ \E j \in (i + 1)..Len(q) : ~IsSpace(q[j])}

\* the k-th smallest element of a set of positions
KthOf(S, k) == CHOOSE i \in S : Cardinality({j \in S : j <= i}) = k

NormalizeAt(q, i) == IF IsSpace(q[i]) THEN " " ELSE Lower(q[i])

NormalizeKept(q, S) == [k \in 1..Cardinality(S) |-> NormalizeAt(q, KthOf(S, k))]

normalize_question(q) == NormalizeKept(q, KeptByNormalize(q))

\* f"{orig_question}\n\nUser clarification: {question}"
WithClarification(orig, question) ==
    orig \o <<"\n", "\n", "User", " ", "clarification", ":", " ">> \o question

\* what the model may answer the router with in a session
SessionObjects ==
    {BaseObject,
     ResultOf("QUERY", Some(PlanOf("FREEFORM_SQL", None, None, FALSE)), None, <<>>, None),
     ResultOf("QUERY", None, None, <<>>, None),
     ResultOf("CLARIFY", None, Some("Which year?"), <<"year">>, None),
     ResultOf("REFUSE", None, None, <<>>, Some("Out of scope.")),
     [BaseObject EXCEPT !.action = "ANSWER"]}

SessionLLM ==
    {[ok |-> FALSE, obj |-> None]}
        \cup {[ok |-> TRUE, obj |-> Some(o)] : o \in SessionObjects}

\* a message of st.session_state.messages: its role and mode
Message(role, m) == [role |-> role, mode |-> m]

\* steps 2 to 5 of the script for a plan: the mode that is used
UsedMode(plan) ==
    IF plan.intent = "FREEFORM_SQL" \/ ~build_sql(plan).ok
    THEN "freeform" ELSE "deterministic"

\* plan_cache[key] = plan
CachePut(cache, key, plan) ==
    [k \in DOMAIN cache \cup {key} |-> IF k = key THEN plan ELSE cache[k]]

\* only plans of QUERY routes are stored
CacheAfterRoute(cache, key, r) ==
    IF r.ok /\ r.value.action = "QUERY" /\ r.value.plan # None
    THEN CachePut(cache, key, r.value.plan[1])
    ELSE cache

\* the routing a question got: from the cache, or from the router
Routing(called, r) ==
    [called |-> called,
     action |-> IF r.ok THEN r.value.action ELSE "error",
     plan |-> IF r.ok THEN r.value.plan ELSE None]

FromCache(plan) ==
    [ok |-> TRUE,
     value |-> [action |-> "QUERY", plan |-> Some(plan)]]

\* the assistant message of a run, if the run appends one: completed says
\* whether steps 2 to 5 ran to the end
AssistantMessage(r, completed) ==
    IF ~r.ok THEN <<Message("assistant", "clarify")>>
    ELSE IF r.value.action = "REFUSE" THEN <<Message("assistant", "guard")>>
    ELSE IF r.value.action = "CLARIFY" THEN <<Message("assistant", "clarify")>>
    ELSE IF r.value.plan = None THEN <<Message("assistant", "clarify")>>
    ELSE IF completed THEN <<Message("assistant", UsedMode(r.value.plan[1]))>>
    ELSE <<>>

SessionInit ==
    /\ spc = "off" /\ sqlIn = <<>> /\ out1 = NoOutcome /\ out2 = NoOutcome
    /\ ChatOff /\ BuilderOff /\ QueryOff /\ ConcOff
    /\ plan_cache = <<>> /\ pending = None /\ messages = <<>>
    /\ asks = <<>> /\ epoch = 0

\* the effects of one script run, given the text that is routed, its key
\* and the routing it got
AskRouted(route_input, key, called, r, completed) ==
    /\ plan_cache' = CacheAfterRoute(plan_cache, key, r)
    /\ pending' = IF called /\ r.ok /\ r.value.action = "CLARIFY"
                  THEN Some(route_input) ELSE None
    /\ messages' = Append(messages, Message("user", ""))
                        \o AssistantMessage(r, completed)
    /\ asks' = Append(asks, [epoch |-> epoch, key |-> key,
                             routing |-> Routing(called, r)])

\* one script run for a submitted question whose key is in plan_cache
AskCached ==
    /\ Len(asks) < MaxAsks
    /\ \E question \in Questions, completed \in BOOLEAN :
        \E route_input \in {IF pending # None
                            THEN WithClarification(pending[1], question)
                            ELSE question} :
        \E key \in {normalize_question(route_input)} :
            /\ key \in DOMAIN plan_cache
            /\ AskRouted(route_input, key, FALSE, FromCache(plan_cache[key]),
                         completed)
    /\ UNCHANGED <<epoch, safetyVars, chatVars, builderVars, queryVars, concVars>>

\* one script run for a submitted question that is given to router.route
AskRouter ==
    /\ Len(asks) < MaxAsks
    /\ \E question \in Questions, completed \in BOOLEAN, out \in SessionLLM :
        \E route_input \in {IF pending # None
                            THEN WithClarification(pending[1], question)
                            ELSE question} :
        \E key \in {normalize_question(route_input)} :
            /\ key \notin DOMAIN plan_cache
            /\ AskRouted(route_input, key, TRUE, Router_route(out), completed)
    /\ UNCHANGED <<epoch, safetyVars, chatVars, builderVars, queryVars, concVars>>

\* the "Clear chat" button
ClearChat ==
    /\ epoch < MaxClears
    /\ messages # <<>>
    /\ messages' = <<>>
    /\ plan_cache' = <<>>
    /\ pending' = None
    /\ epoch' = epoch + 1
    /\ UNCHANGED <<asks, safetyVars, chatVars, builderVars, queryVars, concVars>>

SessionNext == AskCached \/ AskRouter \/ ClearChat

SessionSpec == SessionInit /\ [][SessionNext]_vars

\* C19: after a question was routed, every later question of the session
\* with the same normalized text, asked before the chat is cleared, gets
\* the same routing decision without another router call, whichever of the
\* three actions the decision was.
C19_RoutingCachedPerSession ==
    \A i, j \in 1..Len(asks) :
        (/\ i < j
         /\ asks[i].epoch = asks[j].epoch
         /\ asks[i].key = asks[j].key
         /\ asks[i].routing.action \in Action) =>
            /\ ~asks[j].routing.called
            /\ asks[j].routing.action = asks[i].routing.action
            /\ asks[j].routing.plan = asks[i].routing.plan

-----------------------------------------------------------------------------
(* Properties of the build stage and of the router's validation *)

\* C21: the build stage hands over to freeform generation only when the
\* intent is FREEFORM_SQL or build_sql raised for an unsupported intent; a
\* QUERY result whose plan is null fails the request and is not turned
\* into a freeform query.
C21_FallbackOnlyForDocumentedFailures ==
    /\ CallCount("freeform.generate") > 0 =>
        /\ route[1].plan # None
        /\ \/ route[1].plan[1].intent = "FREEFORM_SQL"
           \/ \E k \in 1..Len(calls) : calls[k] = "build_sql" /\ Raised(k)
    /\ (route # None /\ route[1].action = "QUERY" /\ route[1].plan = None
        /\ pc # "routed") =>
            pc = "failed" /\ mode # "freeform"

\* C22: Router.route returns a RouterResult only when the model's JSON is
\* an instance of ROUTER_RESULT_SCHEMA (no unknown key, no missing key, in
\* the result and in the plan); otherwise route fails, the request fails,
\* and in both cases the router has called the model exactly once.
C22_RouteOnlyForSchemaInstances ==
    CallCount("router.route") > 0 =>
        /\ CallCount("router.route") = 1
        /\ llm_obj # None => (route # None <=> ROUTER_RESULT_SCHEMA(llm_obj[1]))
        /\ route = None => pc = "failed" /\ llm_calls = 1

-----------------------------------------------------------------------------
(* The outcomes of enforce_sql_safety *)

SafetyMessages ==
    {"Empty SQL", "Write operations are not allowed (read-only mode).",
     "SQL parse error", "Only SELECT queries are allowed.",
     "Query references disallowed tables"}

\* C30: for every text enforce_sql_safety either returns a SQL text or
\* raises SQLSafetyError, and nothing else: an input that is empty after
\* trimming is rejected as empty and one with a write keyword as a write,
\* both whether or not the text parses, and a text that does not parse is
\* rejected with SQLSafetyError too.
C30_ReturnsOrSafetyError ==
    spc # "call1" =>
        /\ out1.error \in {"", "SQLSafetyError"}
        /\ out1.ok <=> out1.error = ""
        /\ out1.ok => out1.sql # <<>> /\ out1.msg = ""
        /\ ~out1.ok => out1.msg \in SafetyMessages /\ out1.sql = <<>>
        /\ TrimmedInput(sqlIn) = <<>> => out1.msg = "Empty SQL"
        /\ (TrimmedInput(sqlIn) # <<>> /\ HasWriteWord(sqlIn)) =>
              out1.msg = "Write operations are not allowed (read-only mode)."
        /\ (spc = "end" /\ out2 # NoOutcome) =>
              out2.error \in {"", "SQLSafetyError"}

\* a text that does not parse was rejected with SQLSafetyError
C30_Witness ==
    /\ spc = "end"
    /\ ~ParseOne(Trimmed(sqlIn)).ok
    /\ out1.error = "SQLSafetyError"
    /\ out1.msg = "SQL parse error"

\* a text with a write keyword that does not parse was rejected as a write
C30_WitnessWriteBeforeParse ==
    /\ spc = "end"
    /\ HasWriteWord(sqlIn)
    /\ ~ParseOne(Trimmed(sqlIn)).ok
    /\ out1.msg = "Write operations are not allowed (read-only mode)."

-----------------------------------------------------------------------------
(* The outermost SELECT of a returned text *)

OuterHasLimit(s) == \E i \in 1..Len(s) : OuterAtom(s, i) /\ Lower(s[i]) = "limit"

OuterIsAggregate(s) ==
    \E i \in 1..Len(s) :
        /\ OuterAtom(s, i)
        /\ \/ Lower(s[i]) = "group"
           \/ /\ Lower(s[i]) \in {"count", "sum", "avg", "min", "max"}
              /\ i < Len(s)
              /\ s[i + 1] = "("

\* C26: in every text enforce_sql_safety returns, the outermost SELECT has
\* a LIMIT clause of its own or is itself an aggregate query; a LIMIT, a
\* GROUP BY or an aggregate call inside a subquery does not count.
C26_OuterSelectBounded ==
    (spc # "call1" /\ out1.ok) =>
        OuterHasLimit(out1.sql) \/ OuterIsAggregate(out1.sql)

-----------------------------------------------------------------------------
(* The text executed for a deterministic template *)

\* the intents whose template lists rows and has no LIMIT clause
RowIntents ==
    {"LIST_CLIENTS", "CLIENTS_BY_COUNTRY", "INVOICES_BY_MONTH",
     "INVOICES_BY_STATUS", "CLIENT_INVOICES", "INVOICES_BY_CLIENT_AND_MONTH",
     "OVERDUE_INVOICES_AS_OF_DATE", "INVOICE_LINE_ITEMS"}

\* C29: for a template that lists rows run_sql executes the trimmed
\* template with " LIMIT 50" and the terminator appended, which is not the
\* text build_sql returned, and the result has at most 50 rows; for every
\* other template it executes the trimmed template with the terminator only.
C29_TemplateExecutedWithDefaultLimit ==
    /\ (mode = "deterministic" /\ Len(runs) = 1 /\ calls[Len(calls)] = "run_sql") =>
        \E r \in {runs[1]} : \E intent \in {route[1].plan[1].intent} :
            /\ r.sql = build_sql(route[1].plan[1]).sql
            /\ intent \in RowIntents =>
                /\ r.sent = <<TrimmedInput(r.sql) \o <<" ", "LIMIT", " ", "50", ";">>>>
                /\ r.sent # <<r.sql>>
                /\ r.result # <<>> =>
                      /\ r.result[1].row_count <= 50
                      /\ Len(r.result[1].rows) <= 50
            /\ intent \notin RowIntents =>
                r.sent = <<TrimmedInput(r.sql) \o <<";">>>>
    /\ (mode = "deterministic" /\ resp # None /\ resp[1].action = "QUERY") =>
        /\ Len(runs) = 1
        /\ route[1].plan[1].intent \in RowIntents => resp[1].row_count <= 50

\* a row-listing template came back with exactly 50 rows
C29_Witness ==
    /\ mode = "deterministic"
    /\ Len(runs) = 1
    /\ route[1].plan[1].intent = "LIST_CLIENTS"
    /\ runs[1].result # <<>>
    /\ runs[1].result[1].row_count = 50

\* an aggregate template without LIMIT came back with more than 50 rows
C29_WitnessAggregate ==
    /\ mode = "deterministic"
    /\ Len(runs) = 1
    /\ route[1].plan[1].intent = "REVENUE_BY_COUNTRY"
    /\ runs[1].result # <<>>
    /\ runs[1].result[1].row_count = MaxRows

-----------------------------------------------------------------------------
(* The values build_sql writes into the SQL text *)

LimitIntents == {"TOP_SERVICES_BY_REVENUE", "TOP_SERVICES_EU_H2"}

\* the texts of the plan's values other than intent and limit
PlanValueTexts(plan) ==
    {plan[f][1] : f \in {g \in {"client_name", "country", "invoice_id",
                                "status", "as_of_date", "start_date",
                                "end_date", "service_name"} : plan[g] # None}}
    \cup {IntText(plan[f][1]) : f \in {g \in {"year", "month"} : plan[g] # None}}
    \cup (IF plan.countries = None THEN {}
          ELSE {plan.countries[1][k] : k \in 1..Len(plan.countries[1])})

\* C24: the LIMIT count build_sql writes into the text is plan.limit
\* clamped to [1,200] when it is a number and a count within [1,200] when
\* it is null or not a number; no other value of the plan stands in the
\* text.
C24_InlineLimitClamped ==
    \A i \in 1..Len(builds) :
        builds[i].ok =>
            /\ bplan0.intent \in LimitIntents =>
                /\ LimitOf(builds[i].sql) # None
                /\ LimitOf(builds[i].sql)[1] \in 1..200
                /\ (bplan0.limit # None /\ bplan0.limit[1] # NonNumeric) =>
                      LimitOf(builds[i].sql)[1] = Max(1, Min(200, bplan0.limit[1]))
            /\ \A k \in 1..Len(builds[i].sql) :
                  builds[i].sql[k] \notin PlanValueTexts(bplan0)

-----------------------------------------------------------------------------
(* Termination and the resources of a request *)

Ended == pc \in {"done", "failed"}

\* the positions of the handler
Positions ==
    {"route", "routed", "generate", "execute", "repair", "execute_repaired",
     "synthesize", "synthesize_fix", "done", "failed"}

\* the handler moves on from the statement it is at, or makes another
\* model call there
Advance ==
    /\ ~Ended
    /\ pc' \in Positions
    /\ llm_calls' \in {llm_calls, llm_calls + 1}

\* the handler runs on until it returns or raises: every call it makes
\* returns or raises, and the next statement is then executed
LiveSpec == ChatInit /\ [][Next]_vars /\ WF_<<pc, llm_calls>>(Advance)

\* the calls made so far are within the bounds, and the request has one
\* outcome when it has ended and none before
BoundedCalls ==
    /\ CallCount("router.route") <= 1
    /\ CallCount("freeform.generate") <= 1
    /\ CallCount("freeform.repair") <= 1
    /\ CallCount("run_sql") <= 2
    /\ Len(synth_calls) <= 2
    /\ llm_calls <= 5
    /\ pc = "done" =>
          resp # None /\ failure = None /\ resp[1].action \in Action
    /\ pc = "failed" => resp = None /\ failure # None
    /\ ~Ended => resp = None

\* C28: a request makes at most one router call, one freeform.generate
\* call, one freeform.repair call, two run_sql executions and two
\* synthesizer model calls, five model calls in all; it always ends, and
\* in exactly one of a REFUSE, CLARIFY or QUERY response or a failure.
C28_TerminatesWithBoundedCalls == []BoundedCalls /\ <>Ended

\* a request that used all five model calls and both executions
C28_Witness ==
    /\ pc = "done"
    /\ llm_calls = 5
    /\ CallCount("run_sql") = 2
    /\ Len(synth_calls) = 2
    /\ resp[1].action = "QUERY"

-----------------------------------------------------------------------------
(* The database executing a template: FROM and JOIN ... ON, WHERE,         *)
(* GROUP BY with SUM and COUNT, ORDER BY and LIMIT.  Column values are     *)
(* numbers; the field pass of a row tells whether the row satisfies the    *)
(* conditions that the WHERE clause puts on its table.                     *)

MaxExecs == 2

QRaw(toks, i) == IF i >= 1 /\ i <= Len(toks) THEN toks[i].raw ELSE "<eof>"

\* the number of parentheses open before token i
QDepth(toks, i) ==
    Cardinality({j \in 1..(i - 1) : toks[j].raw = "("})
    - Cardinality({j \in 1..(i - 1) : toks[j].raw = ")"})

\* the first token w outside parentheses, Len(toks) + 1 when there is none
KwAt(toks, w) ==
    LET at == {i \in 1..Len(toks) : toks[i].low = w /\ QDepth(toks, i) = 0}
    IN  IF at = {} THEN Len(toks) + 1
        ELSE CHOOSE i \in at : \A j \in at : i <= j

\* the last token of the clause that starts at token lo
ClauseEnd(toks, lo) ==
    LET next == {KwAt(toks, w) : w \in {"where", "group", "order", "limit"}}
        after == {i \in next : i > lo} \cup {Len(toks) + 1}
    IN  (CHOOSE i \in after : \A j \in after : i <= j) - 1

\* the comma-separated parts of the tokens lo..hi, as ranges
SplitAt(toks, lo, hi) ==
    LET commas == {i \in lo..hi : toks[i].raw = "," /\ QDepth(toks, i) = QDepth(toks, lo)}
        n == Cardinality(commas)
    IN  [k \in 1..(n + 1) |->
            [lo |-> IF k = 1 THEN lo ELSE Nth(commas, k - 1) + 1,
             hi |-> IF k = n + 1 THEN hi ELSE Nth(commas, k) - 1]]

TableOf(db, name) ==
    CASE name = "clients" -> db.clients
      [] name = "invoices" -> db.invoices
      [] name = "invoice_line_items" -> db.items

\* the tables of the FROM clause: [alias, name], the alias being the name
\* when none is given
FromTables(toks) ==
    LET lo == KwAt(toks, "from") + 1
        hi == ClauseEnd(toks, lo)
        at == {lo} \cup {i + 1 : i \in {j \in lo..hi : toks[j].low = "join"}}
    IN  {[alias |-> IF IsIdent(toks, p + 1) THEN toks[p + 1].low ELSE toks[p].low,
          name |-> toks[p].low] : p \in at}

\* the conditions a.x = b.y of the ON clauses
OnConds(toks) ==
    LET lo == KwAt(toks, "from") + 1
        hi == ClauseEnd(toks, lo)
    IN  {[la |-> toks[i + 1].low, lc |-> toks[i + 3].low,
          ra |-> toks[i + 5].low, rc |-> toks[i + 7].low] :
            i \in {j \in lo..hi : toks[j].low = "on"}}

\* one row for each table of a set of tables, in every combination
RECURSIVE Combine(_, _)
Combine(tabs, db) ==
    IF tabs = {} THEN {<<>>}
    ELSE LET t == CHOOSE x \in tabs : TRUE
         IN  {[a \in DOMAIN env \cup {t.alias} |->
                  IF a = t.alias THEN row ELSE env[a]] :
                env \in Combine(tabs \ {t}, db), row \in TableOf(db, t.name)}

\* the joined rows: one row per alias, the ON conditions holding
Joined(toks, db) ==
    {env \in Combine(FromTables(toks), db) :
        \A c \in OnConds(toks) : env[c.la][c.lc] = env[c.ra][c.rc]}

\* the aliases whose columns the WHERE clause tests
WhereAliases(toks) ==
    LET w == KwAt(toks, "where")
        hi == ClauseEnd(toks, w + 1)
        dotted == {toks[i].low : i \in {j \in (w + 1)..hi :
                        toks[j].cls = "word" /\ QRaw(toks, j + 1) = "."}}
    IN  IF w > Len(toks) THEN {}
        ELSE IF dotted = {} THEN {t.alias : t \in FromTables(toks)}
        ELSE dotted

Filtered(toks, db) ==
    {env \in Joined(toks, db) : \A a \in WhereAliases(toks) : env[a].pass}

\* a tax rate added where the template adds it
PlusWithoutTax(a, b) == a

\* the + of an expression of the template
Plus(a, b) == a + b

\* the value of the expression that starts at token i, and the token after
\* it:  sum := prod {+ prod},  prod := atom {* atom},
\*      atom := ( sum ) | number | column | alias.column
RECURSIVE EvalSum(_, _, _)
RECURSIVE EvalSumRest(_, _, _, _)
RECURSIVE EvalProd(_, _, _)
RECURSIVE EvalProdRest(_, _, _, _)
RECURSIVE EvalAtom(_, _, _)

SumFrom(toks, env, r) == EvalSumRest(toks, env, r.v, r.next)

SumStep(toks, env, acc, r) == EvalSumRest(toks, env, Plus(acc, r.v), r.next)

ProdFrom(toks, env, r) == EvalProdRest(toks, env, r.v, r.next)

ProdStep(toks, env, acc, r) == EvalProdRest(toks, env, acc * r.v, r.next)

AfterParen(r) == [v |-> r.v, next |-> r.next + 1]

EvalSum(toks, env, i) == SumFrom(toks, env, EvalProd(toks, env, i))

EvalSumRest(toks, env, acc, i) ==
    IF QRaw(toks, i) = "+"
    THEN SumStep(toks, env, acc, EvalProd(toks, env, i + 1))
    ELSE [v |-> acc, next |-> i]

EvalProd(toks, env, i) == ProdFrom(toks, env, EvalAtom(toks, env, i))

EvalProdRest(toks, env, acc, i) ==
    IF QRaw(toks, i) = "*"
    THEN ProdStep(toks, env, acc, EvalAtom(toks, env, i + 1))
    ELSE [v |-> acc, next |-> i]

EvalAtom(toks, env, i) ==
    IF QRaw(toks, i) = "("
    THEN AfterParen(EvalSum(toks, env, i + 1))
    ELSE IF QRaw(toks, i) \in NumberTexts
    THEN [v |-> CHOOSE n \in 0..200 : IntText(n) = toks[i].raw, next |-> i + 1]
    ELSE IF QRaw(toks, i + 1) = "."
    THEN [v |-> env[toks[i].low][toks[i + 2].low], next |-> i + 3]
    ELSE [v |-> env[CHOOSE a \in DOMAIN env : TRUE][toks[i].low], next |-> i + 1]

\* the items of the SELECT list: the name of the output column, the token
\* its expression starts at, and whether it is a SUM or a COUNT
SelectItems(toks) ==
    LET parts == SplitAt(toks, 2, KwAt(toks, "from") - 1)
    IN  {[name |-> toks[parts[k].hi].low,
          at |-> IF toks[parts[k].lo].low \in {"sum", "count"}
                 THEN parts[k].lo + 2 ELSE parts[k].lo,
          kind |-> IF toks[parts[k].lo].low \in {"sum", "count"}
                   THEN toks[parts[k].lo].low ELSE "value"] :
            k \in DOMAIN parts}

\* the sum of the expression at token at over a set of joined rows
RECURSIVE SumOver(_, _, _)
SumOver(toks, at, members) ==
    IF members = {} THEN 0
    ELSE LET e == CHOOSE x \in members : TRUE
         IN  EvalSum(toks, e, at).v + SumOver(toks, at, members \ {e})

\* the values of the GROUP BY columns in a joined row
GroupKey(toks, env) ==
    LET g == KwAt(toks, "group")
        parts == SplitAt(toks, g + 2, ClauseEnd(toks, g + 1))
    IN  [k \in DOMAIN parts |-> EvalAtom(toks, env, parts[k].lo).v]

\* the output row of a group of joined rows
GroupRow(toks, members) ==
    [nm \in {it.name : it \in SelectItems(toks)} |->
        LET it == CHOOSE x \in SelectItems(toks) : x.name = nm
        IN  CASE it.kind = "sum" -> SumOver(toks, it.at, members)
              [] it.kind = "count" -> Cardinality(members)
              [] OTHER -> EvalSum(toks, CHOOSE e \in members : TRUE, it.at).v]

\* the rows the statement selects, before ORDER BY and LIMIT
OutputRows(toks, db) ==
    IF KwAt(toks, "group") <= Len(toks)
    THEN {GroupRow(toks, {e \in Filtered(toks, db) : GroupKey(toks, e) = key}) :
            key \in {GroupKey(toks, env) : env \in Filtered(toks, db)}}
    ELSE {GroupRow(toks, {env}) : env \in Filtered(toks, db)}

\* the keys of ORDER BY: the output column, and whether DESC follows it
OrderKeys(toks) ==
    LET o == KwAt(toks, "order")
        parts == IF o > Len(toks) THEN <<>>
                 ELSE SplitAt(toks, o + 2, ClauseEnd(toks, o + 1))
    IN  [k \in DOMAIN parts |->
            [desc |-> toks[parts[k].hi].low = "desc",
             name |-> IF toks[parts[k].hi].low = "desc"
                      THEN toks[parts[k].hi - 1].low ELSE toks[parts[k].hi].low]]

\* row a sorts strictly before row b by the keys from the k-th on
RECURSIVE Before(_, _, _, _)
Before(keys, a, b, k) ==
    IF k > Len(keys) THEN FALSE
    ELSE IF a[keys[k].name] = b[keys[k].name] THEN Before(keys, a, b, k + 1)
    ELSE IF keys[k].desc THEN a[keys[k].name] > b[keys[k].name]
    ELSE a[keys[k].name] < b[keys[k].name]

\* the orders the database may return the rows in: any order in which no
\* row comes after one it sorts strictly before
Orderings(rows, keys) ==
    {sq \in [1..Cardinality(rows) -> rows] :
        /\ \A i, j \in DOMAIN sq : i # j => sq[i] # sq[j]
        /\ \A i, j \in DOMAIN sq : i < j => ~Before(keys, sq[j], sq[i], 1)}

\* the results conn.execute(text(sql)) may return on the tables db
ExecuteTemplate(sql, db) ==
    {SubSeq(sq, 1, IF lim = None THEN Len(sq) ELSE Min(Len(sq), lim[1])) :
        sq \in UNION {Orderings(OutputRows(toks, db), OrderKeys(toks)) :
                        toks \in {Tokens(sql)}},
        lim \in {LimitOf(sql)}}

-----------------------------------------------------------------------------
(* Executions of a template on small tables *)

ClientRow(id, country, pass) ==
    [client_id |-> id, client_name |-> id, industry |-> 1,
     country |-> country, pass |-> pass]

InvoiceRow(id, client, pass) ==
    [invoice_id |-> id, client_id |-> client, invoice_date |-> 1,
     due_date |-> 1, status |-> 1, currency |-> 1, pass |-> pass]

ItemRow(id, invoice, service, quantity, tax, pass) ==
    [line_id |-> id, invoice_id |-> invoice, service_name |-> service,
     quantity |-> quantity, unit_price |-> 10, tax_rate |-> tax, pass |-> pass]

\* two clients with different names, two invoices of the same date, three
\* line items; every invoice has a client and every line item an invoice
Databases ==
    {[clients |-> {ClientRow(1, 1, TRUE), ClientRow(2, c, cp)},
      invoices |-> {InvoiceRow(1, 1, TRUE), InvoiceRow(2, ic, ip)},
      items |-> {ItemRow(1, 1, 1, 1, 0, TRUE), ItemRow(2, 2, s2, q2, 1, TRUE),
                 ItemRow(3, i3, 2, 1, 0, p3)}] :
        c \in 1..2, cp \in BOOLEAN, ic \in 1..2, ip \in BOOLEAN,
        s2 \in 1..2, q2 \in 1..2, i3 \in 1..2, p3 \in BOOLEAN}

\* the text build_sql returns for an intent
TemplateOf(intent) == build_sql(PlanOf(intent, None, None, TRUE)).sql

QueryInit ==
    /\ spc = "off" /\ sqlIn = <<>> /\ out1 = NoOutcome /\ out2 = NoOutcome
    /\ ChatOff /\ BuilderOff /\ SessionOff /\ ConcOff
    /\ qintent \in Intent \ {"FREEFORM_SQL"}
    /\ qdb \in Databases
    /\ qout = <<>>

\* conn.execute(text(sql), params) for the template of the intent
ExecuteCall ==
    /\ qintent # ""
    /\ Len(qout) < MaxExecs
    /\ \E rows \in ExecuteTemplate(TemplateOf(qintent), qdb) :
        qout' = Append(qout, rows)
    /\ UNCHANGED <<qintent, qdb, safetyVars, chatVars, builderVars,
                   sessionVars, concVars>>

QueryNext == ExecuteCall

QuerySpec == QueryInit /\ [][QueryNext]_vars

\* C23: the ORDER BY of every template breaks ties by a further key, so
\* that two executions of a template on the same tables return the same
\* rows in the same order, also for the templates with ORDER BY and LIMIT
\* when groups have equal totals.
C23_RowOrderDetermined ==
    \A i, j \in 1..Len(qout) : qout[i] = qout[j]

-----------------------------------------------------------------------------
(* The totals of the revenue templates *)

TotalIntents ==
    {"CLIENT_TOTAL_BILLED_BY_YEAR", "TOP_CLIENT_BY_YEAR",
     "TOP_SERVICES_BY_REVENUE", "REVENUE_BY_COUNTRY", "SERVICE_CLIENT_TOTALS",
     "TOP_SERVICES_EU_H2"}

\* the output column that holds the total
TotalColumn(intent) ==
    CASE intent \in {"TOP_SERVICES_BY_REVENUE", "TOP_SERVICES_EU_H2"} ->
            "total_revenue_including_tax"
      [] intent = "SERVICE_CLIENT_TOTALS" -> "total_paid_including_tax"
      [] OTHER -> "total_billed_including_tax"

\* the output column that identifies the group
KeyColumn(intent) ==
    CASE intent \in {"TOP_SERVICES_BY_REVENUE", "TOP_SERVICES_EU_H2"} ->
            "service_name"
      [] intent = "REVENUE_BY_COUNTRY" -> "country"
      [] OTHER -> "client_id"

\* a line item with its invoice and the client of the invoice
LineItemsJoined(db) ==
    {t \in db.items \X db.invoices \X db.clients :
        /\ t[1].invoice_id = t[2].invoice_id
        /\ t[2].client_id = t[3].client_id}

\* the filter of the intent: on the invoice, and for two intents also on
\* the line item or on the client
PassesFilter(intent, t) ==
    /\ t[2].pass
    /\ intent = "SERVICE_CLIENT_TOTALS" => t[1].pass
    /\ intent = "TOP_SERVICES_EU_H2" => t[3].pass

\* the line items of a group
GroupItems(intent, db, key) ==
    {t \in LineItemsJoined(db) :
        /\ PassesFilter(intent, t)
        /\ key = (IF KeyColumn(intent) = "service_name" THEN t[1].service_name
                  ELSE IF KeyColumn(intent) = "country" THEN t[3].country
                  ELSE t[3].client_id)}

RECURSIVE LineTotals(_)
LineTotals(ts) ==
    IF ts = {} THEN 0
    ELSE LET t == CHOOSE x \in ts : TRUE
         IN  (t[1].quantity * t[1].unit_price) * (1 + t[1].tax_rate)
             + LineTotals(ts \ {t})

\* C25: for an intent that computes a total, the total of every group
\* returned is the sum of (quantity * unit_price) * (1 + tax_rate) over
\* the line items that are joined to the group through their invoice and
\* its client and that pass the filter.
C25_TotalsAreTaxInclusiveSums ==
    qintent \in TotalIntents =>
        \A k \in 1..Len(qout) : \A n \in 1..Len(qout[k]) :
            qout[k][n][TotalColumn(qintent)] =
                LineTotals(GroupItems(qintent, qdb, qout[k][n][KeyColumn(qintent)]))

\* a group of two line items, one of them taxed
C25_Witness ==
    /\ qintent = "REVENUE_BY_COUNTRY"
    /\ Len(qout) >= 1
    /\ \E n \in 1..Len(qout[1]) :
        /\ Cardinality(GroupItems(qintent, qdb, qout[1][n].country)) >= 2
        /\ \E t \in GroupItems(qintent, qdb, qout[1][n].country) : t[1].tax_rate = 1
        /\ qout[1][n].total_billed_including_tax >= 30

-----------------------------------------------------------------------------
(* Concurrent /chat requests on the objects create_app shares *)

\* engine, sql_agent, llm, router, synth and freeform, built once by
\* create_app and used by every request
SharedObjects ==
    [sql_agent |-> [engine |-> "engine", safety_cfg |-> SQLSafetyConfig],
     llm |-> [model |-> "model", client |-> "client"],
     router |-> [llm |-> "llm"],
     synth |-> [llm |-> "llm"],
     freeform |-> [llm |-> "llm"]]

\* what the database answers one execution of a request with
DBError == [ok |-> FALSE, n |-> 0]

DBRows(n) == [ok |-> TRUE, n |-> n]

\* the answers the model and the database give one request: to the router,
\* to generate, to repair, to the executions and to the synthesizer calls
ScriptOf(r, gen, rep, db, ans) ==
    [route |-> r, gen |-> gen, rep |-> rep, db |-> db, ans |-> ans]

JsonOf(o) == [ok |-> TRUE, obj |-> Some(o)]

TextOf(t) == [ok |-> TRUE, text |-> t]

SeeTable == TextOf(<<"See", " ", "table", "\n">>)

SelectClients == TextOf(<<"SELECT", " ", "*", " ", "FROM", " ", "clients">>)

CountInvoices ==
    TextOf(<<"SELECT", " ", "COUNT", "(", "*", ")", " ", "FROM", " ",
             "invoices", ";", "\n">>)

FreeformObject ==
    ResultOf("QUERY", Some(PlanOf("FREEFORM_SQL", None, None, FALSE)), None,
             <<>>, None)

Scripts ==
    {ScriptOf(JsonOf(ResultOf("REFUSE", None, None, <<>>, Some("Out of scope."))),
              SelectClients, SelectClients, <<DBError, DBError>>,
              <<SeeTable, SeeTable>>),
     ScriptOf(JsonOf(BaseObject), SelectClients, SelectClients,
              <<DBRows(1), DBError>>, <<TextOf(<<"Total", " ", "1">>), SeeTable>>),
     ScriptOf(JsonOf(BaseObject), SelectClients, SelectClients,
              <<DBError, DBError>>, <<SeeTable, SeeTable>>),
     ScriptOf(JsonOf(FreeformObject), SelectClients, CountInvoices,
              <<DBError, DBRows(1)>>, <<TextOf(<<"Total", " ", "99">>), SeeTable>>),
     ScriptOf(JsonOf(FreeformObject), SelectClients, SelectClients,
              <<DBRows(MaxRows), DBError>>,
              <<TextOf(<<"Total", " ", "99">>), TextOf(<<"Total", " ", "99">>)>>)}

\* the locals of chat when the handler starts; repairs counts the calls
\* of freeform.repair, overlapped records a step taken while another
\* request was in progress, alone holds the outcome of the same request
\* run with no other request in progress
NewRequest(s) ==
    [script |-> s, pc |-> "route", route |-> None, mode |-> "",
     sql_text |-> <<>>, params |-> <<>>, run |-> None, answer |-> None,
     executed |-> <<>>, repairs |-> 0, failure |-> None, resp |-> None,
     overlapped |-> FALSE, alone |-> None]

RequestEnded(rq) == rq.pc \in {"done", "failed"}

Failed(rq, error) == [rq EXCEPT !.pc = "failed", !.failure = Some(error)]

\* route = router.route(q)
Routed(rq, r) ==
    IF r.ok THEN [rq EXCEPT !.route = Some(r.value), !.pc = "routed"]
    ELSE Failed(rq, IF rq.script.route.ok THEN "ValidationError" ELSE "APIError")

\* built = build_sql(plan), or the except branch of the hybrid selection
Built(rq, b) ==
    IF b.ok
    THEN [rq EXCEPT !.mode = "deterministic", !.sql_text = b.sql,
                    !.params = b.params, !.pc = "execute"]
    ELSE [rq EXCEPT !.mode = ExceptMode, !.pc = "generate"]

\* the two early returns and the hybrid selection
Selected(rq, to) ==
    CASE to = "refuse" ->
            [rq EXCEPT !.pc = "done",
                !.resp = Some([ChatResponse("REFUSE") EXCEPT
                    !.refusal_message = rq.route[1].refusal_message])]
      [] to = "clarify" ->
            [rq EXCEPT !.pc = "done",
                !.resp = Some([ChatResponse("CLARIFY") EXCEPT
                    !.clarifying_question = rq.route[1].clarifying_question,
                    !.missing_fields = rq.route[1].missing_fields])]
      [] OTHER ->
            IF rq.route[1].plan = None
                \/ rq.route[1].plan[1].intent = "FREEFORM_SQL"
            THEN [rq EXCEPT !.mode = ExceptMode, !.pc = "generate"]
            ELSE Built(rq, build_sql(rq.route[1].plan[1]))

\* sql_text, params = ff.safe_sql, {} after generate or repair
Generated(rq, f, to) ==
    IF f.ok
    THEN [rq EXCEPT !.sql_text = f.safe_sql, !.params = <<>>, !.pc = to]
    ELSE Failed(rq, f.error)

\* the outcome of Execute that the answer of the database selects
Answered(safe_sql, ps, a) ==
    CHOOSE r \in Execute(safe_sql, ps) :
        \/ ~safe_sql.ok
        \/ ~a.ok /\ ~r.ok
        \/ /\ a.ok /\ r.ok
           /\ \E lim \in {LimitOf(safe_sql.sql)} :
                r.result[1].rows =
                    Rows(IF lim = None THEN a.n ELSE Min(a.n, lim[1]))

\* run = sql_agent.run_sql(sql_text, params) and its except branch
Ran(rq, r, onfail) ==
    IF r.ok
    THEN [rq EXCEPT !.run = r.result, !.executed = @ \o r.sent,
                    !.pc = "synthesize"]
    ELSE IF onfail = "failed"
    THEN [Failed(rq, r.error) EXCEPT !.executed = @ \o r.sent]
    ELSE [rq EXCEPT !.executed = @ \o r.sent, !.pc = onfail]

\* answer = self.llm.text(SYSTEM, user).strip() and the numeric guard
Drafted(rq, out, draft) ==
    IF ~out.ok THEN Failed(rq, "APIError")
    ELSE IF NeedsFix(Extra(draft, rq.run[1].rows))
    THEN [rq EXCEPT !.answer = Some(draft), !.pc = "synthesize_fix"]
    ELSE [rq EXCEPT !.answer = Some(draft), !.pc = "done",
                    !.resp = Some(QueryResponse(rq.mode, draft, rq.run[1]))]

\* answer = self.llm.text(SYSTEM, fix_user).strip(); return ChatResponse(...)
Fixed(rq, out, fixed) ==
    IF ~out.ok THEN Failed(rq, "APIError")
    ELSE [rq EXCEPT !.answer = Some(fixed),
                    !.pc = AfterFix(Extra(fixed, rq.run[1].rows)),
                    !.resp = Some(QueryResponse(rq.mode, fixed, rq.run[1]))]

\* one stage of chat, on the locals of the request and the objects it is
\* given
Stage(rq, objs) ==
    CASE rq.pc = "route" -> Routed(rq, Router_route(rq.script.route))
      [] rq.pc = "routed" -> Selected(rq, Dispatch(rq.route[1]))
      [] rq.pc = "generate" ->
            Generated(rq, generate(rq.script.gen), "execute")
      [] rq.pc = "execute" ->
            Ran(rq, Answered(enforce_sql_safety(rq.sql_text,
                                                objs.sql_agent.safety_cfg),
                             rq.params, rq.script.db[1]),
                OnRunFailure(rq.mode))
      [] rq.pc = "repair" ->
            Generated([rq EXCEPT !.repairs = @ + 1], repair(rq.script.rep),
                      "execute_repaired")
      [] rq.pc = "execute_repaired" ->
            Ran(rq, Answered(enforce_sql_safety(rq.sql_text,
                                                objs.sql_agent.safety_cfg),
                             rq.params, rq.script.db[2]),
                OnRepairedRunFailure)
      [] rq.pc = "synthesize" ->
            Drafted(rq, rq.script.ans[1], Strip(rq.script.ans[1].text))
      [] rq.pc = "synthesize_fix" ->
            Fixed(rq, rq.script.ans[2], Strip(rq.script.ans[2].text))
      [] OTHER -> rq

\* the agent keeps the number of rows it last returned as its default limit
AgentKeepsLastRowCount(agent, result) ==
    IF result = None THEN agent
    ELSE [agent EXCEPT !.safety_cfg.default_limit = Max(1, Len(result[1].rows))]

\* SQLAgent.run_sql assigns no attribute of self
AgentAfterRun(agent, result) == agent

\* the shared objects after the stage that took the request from rq to nxt
ObjectsAfter(objs, rq, nxt) ==
    IF rq.pc \in {"execute", "execute_repaired"}
    THEN [objs EXCEPT !.sql_agent = AgentAfterRun(@, nxt.run)]
    ELSE objs

\* the request run from rq to its end with no other request in progress
RECURSIVE RunAlone(_, _), RunAloneFrom(_, _, _)
RunAlone(rq, objs) ==
    IF RequestEnded(rq) THEN rq
    ELSE RunAloneFrom(rq, objs, Stage(rq, objs))

RunAloneFrom(rq, objs, nxt) == RunAlone(nxt, ObjectsAfter(objs, rq, nxt))

\* what the claim compares of a request
OutcomeOf(rq) ==
    [mode |-> rq.mode, executed |-> rq.executed, repairs |-> rq.repairs,
     resp |-> rq.resp, failure |-> rq.failure]

\* a request as it arrives, with the outcome it has when it runs alone on
\* the objects create_app built
Arrived(s) ==
    [NewRequest(s) EXCEPT
        !.alone = Some(OutcomeOf(RunAlone(NewRequest(s), SharedObjects)))]

MaxRequests == 2

ConcInit ==
    /\ spc = "off" /\ sqlIn = <<>> /\ out1 = NoOutcome /\ out2 = NoOutcome
    /\ ChatOff /\ BuilderOff /\ SessionOff /\ QueryOff
    /\ reqs \in [1..MaxRequests -> {Arrived(s) : s \in Scripts}]
    /\ shared = SharedObjects

\* one request takes its next stage; the others stay where they are
RequestStep ==
    /\ \E id \in DOMAIN reqs : \E nxt \in {Stage(reqs[id], shared)} :
        /\ ~RequestEnded(reqs[id])
        /\ reqs' = [reqs EXCEPT ![id] =
                [nxt EXCEPT !.overlapped =
                    @ \/ \E o \in DOMAIN reqs \ {id} :
                            reqs[o].pc # "route" /\ ~RequestEnded(reqs[o])]]
        /\ shared' = ObjectsAfter(shared, reqs[id], nxt)
    /\ UNCHANGED <<safetyVars, chatVars, builderVars, sessionVars, queryVars>>

ConcNext == RequestStep

ConcSpec == ConcInit /\ [][ConcNext]_vars

====
